---------------------------- MODULE Spec2Model ----------------------------
(***************************************************************************)
(* A model of the Java class-file unpacking module (src/src/__init__.py).  *)
(*                                                                         *)
(* Conventions                                                             *)
(*   - a Python str or buffer of bytes is a sequence of integers 0..255;   *)
(*     a decoded (unicode) string is a sequence of code points;            *)
(*   - a call's outcome is a record [exc, val, s]: exc is the name of the  *)
(*     exception class the call raises ("" when it returns), val is the    *)
(*     value it returns and s is the stream it leaves behind;              *)
(*   - Python's None is the integer None where it stands for a constant    *)
(*     pool tag or payload, and a record field "present"/"open" elsewhere; *)
(*   - the module is Python 2 code (xrange, buffer, "except X, e").        *)
(***************************************************************************)
EXTENDS Integers, Sequences, FiniteSets, TLC

VARIABLES
    lnattr,   \* JavaCodeInfo: the "LineNumberTable" attribute payload
    lres,     \* outcome of the last get_line_for_offset call
    data,     \* the caller's data object handed to is_class / unpack_class
    up,       \* an Unpacker the caller built over data
    ret,      \* outcome of the last top-level or Unpacker call
    pin,      \* the bytes a constant pool is unpacked from
    cpool,    \* JavaConstantPool.consts after unpack
    pres,     \* outcome of the last constant pool call
    dsrc,     \* the descriptor string handed to _typeseq
    dbuff,    \* _typeseq_iter: the buffer still to be tokenized
    dtoks,    \* _typeseq_iter: the tokens yielded so far
    dpc,      \* _typeseq_iter: "run", "done" or the exception raised
    cls,      \* a JavaClassInfo after unpack, with its three cached sets
    cres      \* outcome of the last call on the class or one of its members

vars == <<lnattr, lres, data, up, ret, pin, cpool, pres, dsrc, dbuff, dtoks, dpc,
          cls, cres>>

(***************************************************************************)
(* Bounds of the model.                                                    *)
(***************************************************************************)
MaxLnt == 3        \* entries of a line-number table
MaxPc == 4         \* largest start_pc and code offset
MaxRef == 8        \* largest pool index referred to or looked up
MaxCount == 8      \* largest constant_pool_count header of a base pool
MaxDesc == 4       \* length of the arbitrary descriptor strings
MaxParams == 2     \* parameters of a generated method descriptor
MaxToks == 3       \* tokens kept of a tokenization that never ends
MaxRead == 2       \* bytes a caller asks Unpacker.read for

(***************************************************************************)
(* Module constants.                                                       *)
(***************************************************************************)
JAVA_CLASS_MAGIC == <<202, 254, 186, 190>>
JAVA_CLASS_MAGIC_STR == <<202, 254, 186, 190>>

CONST_Utf8 == 1
CONST_Integer == 3
CONST_Float == 4
CONST_Long == 5
CONST_Double == 6
CONST_Class == 7
CONST_String == 8
CONST_Fieldref == 9
CONST_Methodref == 10
CONST_InterfaceMethodref == 11
CONST_NameAndType == 12
CONST_ModuleIdInfo == 13

ACC_PUBLIC == 1
ACC_PRIVATE == 2
ACC_PROTECTED == 4
ACC_STATIC == 8
ACC_FINAL == 16
ACC_SYNCHRONIZED == 32
ACC_VOLATILE == 64
ACC_BRIDGE == 64
ACC_TRANSIENT == 128
ACC_VARARGS == 128
ACC_NATIVE == 256
ACC_ABSTRACT == 1024
ACC_STRICT == 2048
ACC_SYNTHETIC == 4096
ACC_ENUM == 16384
ACC_MODULE == 32768

\* Python's None as a constant pool tag or payload: (None, None).
None == 0

(***************************************************************************)
(* Outcomes.                                                               *)
(***************************************************************************)
Return(v, s) == [exc |-> "", val |-> v, s |-> s]
Raise(e, s) == [exc |-> e, val |-> <<>>, s |-> s]

\* UnpackException.__init__(fmt, wanted, present): sets the three fields and
\* then calls Exception.__init__ unbound with the message string as its only
\* argument, i.e. as self.  Python 2 rejects that with a TypeError, so the
\* constructor never returns an UnpackException; called with any other
\* number of arguments it raises TypeError before its body runs.
UnpackException(nargs) ==
    IF nargs # 3
    THEN "TypeError"    \* __init__() takes exactly 4 arguments
    ELSE "TypeError"    \* descriptor '__init__' requires an exception object

(***************************************************************************)
(* Streams: a StringIO over a str, or the caller's file-like object.       *)
(*   buf: the bytes not yet read; closed; hasclose: it has a close method. *)
(***************************************************************************)
StringIO(bytes) == [buf |-> bytes, closed |-> FALSE, hasclose |-> TRUE]

Min(a, b) == IF a < b THEN a ELSE b

\* stream.read(n): up to n bytes; ValueError on a closed stream.
stream_read(s, n) ==
    IF s.closed THEN Raise("ValueError", s)
    ELSE LET k == Min(n, Len(s.buf))
         IN  Return(SubSeq(s.buf, 1, k),
                    [s EXCEPT !.buf = SubSeq(s.buf, k + 1, Len(s.buf))])

\* stream.close(), when the stream has one.
stream_close(s) == IF s.hasclose THEN [s EXCEPT !.closed = TRUE] ELSE s

(***************************************************************************)
(* struct formats: a format is the sequence of its field codes, ">" (big   *)
(* endian, no padding) being understood.                                   *)
(***************************************************************************)
FieldSize(c) ==
    CASE c = "B" -> 1
      [] c = "H" -> 2
      [] c = "I" -> 4
      [] c = "i" -> 4
      [] c = "f" -> 4
      [] c = "q" -> 8
      [] c = "d" -> 8

RECURSIVE StructSize(_)
StructSize(fmt) ==
    IF fmt = <<>> THEN 0 ELSE FieldSize(Head(fmt)) + StructSize(Tail(fmt))

\* The unsigned big-endian value of a byte string.
RECURSIVE BigEndian(_)
BigEndian(bytes) ==
    IF bytes = <<>> THEN 0
    ELSE BigEndian(SubSeq(bytes, 1, Len(bytes) - 1)) * 256 + bytes[Len(bytes)]

\* The two's complement value of a byte string.
TwosComplement(bytes) ==
    IF bytes[1] >= 128
    THEN -BigEndian([i \in 1..Len(bytes) |-> 255 - bytes[i]]) - 1
    ELSE BigEndian(bytes)

\* One field of a struct.  A float or double is named by its IEEE-754 bit
\* pattern: the model does no floating point arithmetic.
FieldValue(c, bytes) ==
    IF c \in {"i", "q"} THEN TwosComplement(bytes) ELSE BigEndian(bytes)

\* Struct.unpack(buff): one value per field code.
RECURSIVE StructUnpack(_, _)
StructUnpack(fmt, bytes) ==
    IF fmt = <<>> THEN <<>>
    ELSE LET n == FieldSize(Head(fmt))
         IN  <<FieldValue(Head(fmt), SubSeq(bytes, 1, n))>>
             \o StructUnpack(Tail(fmt), SubSeq(bytes, n + 1, Len(bytes)))

(***************************************************************************)
(* Unpacker, over its stream s (self.stream, not None).                    *)
(***************************************************************************)
\* Unpacker.unpack(fmt)
Unpacker_unpack(s, fmt) ==
    LET size == StructSize(fmt)
        r == stream_read(s, size)
    IN  IF r.exc # "" THEN r
        ELSE IF Len(r.val) < size THEN Raise(UnpackException(3), r.s)
        ELSE Return(StructUnpack(fmt, r.val), r.s)

\* Unpacker.unpack(">%i%s" % (count, c)): count fields of code c.
Unpacker_unpack_repeat(s, count, c) ==
    LET size == count * FieldSize(c)
        r == stream_read(s, size)
    IN  IF r.exc # "" THEN r
        ELSE IF Len(r.val) < size THEN Raise(UnpackException(3), r.s)
        ELSE Return(StructUnpack([k \in 1..count |-> c], r.val), r.s)

\* Unpacker.read(count)
Unpacker_read(s, count) ==
    LET r == stream_read(s, count)
    IN  IF r.exc # "" THEN r
        ELSE IF Len(r.val) < count THEN Raise(UnpackException(3), r.s)
        ELSE r

\* Unpacker._unpack_array(count, fmt), run to its end by tuple().
RECURSIVE unpack_array_loop(_, _, _, _)
unpack_array_loop(s, count, fmt, acc) ==
    IF count <= 0 THEN Return(acc, s)
    ELSE LET r == Unpacker_unpack(s, fmt)
         IN  IF r.exc # "" THEN r
             ELSE unpack_array_loop(r.s, count - 1, fmt, Append(acc, r.val))

\* Unpacker.unpack_array(fmt)
Unpacker_unpack_array(s, fmt) ==
    LET c == Unpacker_unpack(s, <<"H">>)
    IN  IF c.exc # "" THEN c
        ELSE unpack_array_loop(c.s, c.val[1], fmt, <<>>)

\* Unpacker.close() on self.stream
Unpacker_close(s) == stream_close(s)

(***************************************************************************)
(* JavaCodeInfo: the line-number table.                                    *)
(*   An attribute is [present, buf]: get_attribute gives None or the       *)
(*   payload.                                                              *)
(***************************************************************************)
\* JavaCodeInfo.get_linenumbertable()
get_linenumbertable(attr) ==
    IF ~attr.present THEN Return(<<>>, StringIO(<<>>))
    ELSE LET r == Unpacker_unpack_array(StringIO(attr.buf), <<"H", "H">>)
         IN  [r EXCEPT !.s = Unpacker_close(r.s)]

\* The for loop of get_line_for_offset over lnt[i..], prev carried along.
RECURSIVE line_scan(_, _, _, _)
line_scan(lnt, i, code_offset, prev) ==
    IF i > Len(lnt) THEN prev
    ELSE LET o == lnt[i][1]
             l == lnt[i][2]
         IN  IF o < code_offset THEN line_scan(lnt, i + 1, code_offset, o)
             ELSE IF o = code_offset THEN l
             ELSE prev

\* JavaCodeInfo.get_line_for_offset(code_offset)
get_line_for_offset(attr, code_offset) ==
    LET t == get_linenumbertable(attr)
    IN  IF t.exc # "" THEN t
        ELSE Return(line_scan(t.val, 1, code_offset, -1), t.s)

(***************************************************************************)
(* Python values: [ty, v] with ty one of "unicode", "str", "int", "float", *)
(* "tuple"; v is a sequence of code points, an integer, or a sequence of   *)
(* values.                                                                 *)
(***************************************************************************)
PyUnicode(s) == [ty |-> "unicode", v |-> s]
PyStr(s) == [ty |-> "str", v |-> s]
PyInt(n) == [ty |-> "int", v |-> n]
PyFloat(bits) == [ty |-> "float", v |-> bits]
PyTuple(vs) == [ty |-> "tuple", v |-> vs]
PyBool(b) == [ty |-> "bool", v |-> b]
PyNone == [ty |-> "NoneType", v |-> <<>>]

\* x == y of two Python values: values of different types are unequal (no
\* int is compared with a bool or a float here, no str with a unicode).
RECURSIVE SameValue(_, _)
SameValue(a, b) ==
    /\ a.ty = b.ty
    /\ IF a.ty = "tuple"
       THEN /\ Len(a.v) = Len(b.v)
            /\ \A k \in 1..Len(a.v) : SameValue(a.v[k], b.v[k])
       ELSE a.v = b.v

\* x == y where a tuple's or str's payload is a sequence of plain integers
\* (the magic bytes, as the tuple unpack returns or the str a caller read).
SameBytesValue(a, b) == a.ty = b.ty /\ a.v = b.v

\* bool(x) of None, a str or a tuple
Truthy(x) == x.ty # "NoneType" /\ x.v # <<>>

\* Printable ASCII, code points 32..126 (three characters spelt out).
AsciiTable ==
    <<" ", "!", "quote", "#", "$", "%", "&", "'", "(", ")", "*", "+", ",", "-",
      ".", "/", "0", "1", "2", "3", "4", "5", "6", "7", "8", "9", ":", ";",
      "<", "=", ">", "?", "@", "A", "B", "C", "D", "E", "F", "G", "H", "I",
      "J", "K", "L", "M", "N", "O", "P", "Q", "R", "S", "T", "U", "V", "W",
      "X", "Y", "Z", "[", "backslash", "]", "^", "_", "backquote", "a", "b", "c", "d", "e",
      "f", "g", "h", "i", "j", "k", "l", "m", "n", "o", "p", "q", "r", "s",
      "t", "u", "v", "w", "x", "y", "z", "{", "|", "}", "~">>

\* ord(c) of a printable ASCII character.
Ord(c) == 31 + (CHOOSE i \in 1..Len(AsciiTable) : AsciiTable[i] = c)

\* A string literal: Str(<<"a", "b">>) is "ab".
Str(cs) == [i \in 1..Len(cs) |-> Ord(cs[i])]

(***************************************************************************)
(* bytes.decode("utf8") and the modified UTF-8 fallback.                   *)
(***************************************************************************)
IsCont(b) == b >= 128 /\ b <= 191

\* The length of the UTF-8 sequence that starts bytes[i..], 0 when invalid.
Utf8SeqLen(bytes, i) ==
    LET b == bytes[i]
        n == Len(bytes)
        c(k) == i + k <= n /\ IsCont(bytes[i + k])
    IN  IF b < 128 THEN 1
        ELSE IF b >= 194 /\ b <= 223 /\ c(1) THEN 2
        ELSE IF b >= 224 /\ b <= 239 /\ c(1) /\ c(2)
                /\ (b = 224 => bytes[i + 1] >= 160) THEN 3
        ELSE IF b >= 240 /\ b <= 244 /\ c(1) /\ c(2) /\ c(3)
                /\ (b = 240 => bytes[i + 1] >= 144)
                /\ (b = 244 => bytes[i + 1] <= 143) THEN 4
        ELSE 0

Utf8CodePoint(bytes, i, n) ==
    CASE n = 1 -> bytes[i]
      [] n = 2 -> (bytes[i] - 192) * 64 + (bytes[i + 1] - 128)
      [] n = 3 -> (bytes[i] - 224) * 4096 + (bytes[i + 1] - 128) * 64
                  + (bytes[i + 2] - 128)
      [] n = 4 -> (bytes[i] - 240) * 262144 + (bytes[i + 1] - 128) * 4096
                  + (bytes[i + 2] - 128) * 64 + (bytes[i + 3] - 128)

\* val.decode("utf8"): [ok, val].
RECURSIVE Utf8Decode(_, _, _)
Utf8Decode(bytes, i, acc) ==
    IF i > Len(bytes) THEN [ok |-> TRUE, val |-> acc]
    ELSE LET n == Utf8SeqLen(bytes, i)
         IN  IF n = 0 THEN [ok |-> FALSE, val |-> <<>>]
             ELSE Utf8Decode(bytes, i + n, Append(acc, Utf8CodePoint(bytes, i, n)))

\* val.replace("\xC0\x80", "\00")
RECURSIVE ReplaceC080(_)
ReplaceC080(bytes) ==
    IF bytes = <<>> THEN <<>>
    ELSE IF Len(bytes) >= 2 /\ bytes[1] = 192 /\ bytes[2] = 128
         THEN <<0>> \o ReplaceC080(SubSeq(bytes, 3, Len(bytes)))
    ELSE <<bytes[1]>> \o ReplaceC080(Tail(bytes))

(***************************************************************************)
(* The constant pool.  An item is <<tag, payload>>; consts[index] of the   *)
(* code is consts[index + 1] here.                                         *)
(***************************************************************************)
ScalarTags == {CONST_Utf8, CONST_Integer, CONST_Float, CONST_Long, CONST_Double}
RefTags == {CONST_Class, CONST_String}
PairTags == {CONST_Fieldref, CONST_Methodref, CONST_InterfaceMethodref,
             CONST_NameAndType, CONST_ModuleIdInfo}

\* _unpack_const_item(unpacker): val is the item <<typecode, val>>.
unpack_const_item(s) ==
    LET tc == Unpacker_unpack(s, <<"B">>)
        typecode == tc.val[1]
        one(fmt) == LET r == Unpacker_unpack(tc.s, fmt)
                    IN  IF r.exc # "" THEN r
                        ELSE Return(<<typecode, r.val[1]>>, r.s)
    IN  IF tc.exc # "" THEN tc
        ELSE IF typecode = CONST_Utf8 THEN
            LET slen == Unpacker_unpack(tc.s, <<"H">>)
                val == Unpacker_read(slen.s, slen.val[1])
                strict == Utf8Decode(val.val, 1, <<>>)
                hack == Utf8Decode(ReplaceC080(val.val), 1, <<>>)
            IN  IF slen.exc # "" THEN slen
                ELSE IF val.exc # "" THEN val
                ELSE IF strict.ok THEN Return(<<typecode, strict.val>>, val.s)
                ELSE IF hack.ok THEN Return(<<typecode, hack.val>>, val.s)
                ELSE Raise("UnicodeDecodeError", val.s)
        ELSE IF typecode = CONST_Integer THEN one(<<"i">>)
        ELSE IF typecode = CONST_Float THEN one(<<"f">>)
        ELSE IF typecode = CONST_Long THEN one(<<"q">>)
        ELSE IF typecode = CONST_Double THEN one(<<"d">>)
        ELSE IF typecode \in RefTags THEN one(<<"H">>)
        ELSE IF typecode \in PairTags THEN
            LET r == Unpacker_unpack(tc.s, <<"H", "H">>)
            IN  IF r.exc # "" THEN r ELSE Return(<<typecode, r.val>>, r.s)
        ELSE Raise("Unimplemented", tc.s)

\* pool_loop as it would be without the hackpass flag: no slot is skipped
\* after a Long or Double.
RECURSIVE pool_loop_noskip(_, _, _, _)
pool_loop_noskip(s, count, hackpass, items) ==
    IF count <= 0 THEN Return(items, s)
    ELSE LET item == unpack_const_item(s)
         IN  IF item.exc # "" THEN item
             ELSE pool_loop_noskip(item.s, count - 1, FALSE, Append(items, item.val))

\* The for loop of JavaConstantPool.unpack: count iterations still to run.
RECURSIVE pool_loop(_, _, _, _)
pool_loop(s, count, hackpass, items) ==
    IF count <= 0 THEN Return(items, s)
    ELSE IF hackpass
         THEN pool_loop(s, count - 1, FALSE, Append(items, <<None, None>>))
    ELSE LET item == unpack_const_item(s)
         IN  IF item.exc # "" THEN item
             ELSE pool_loop(item.s, count - 1,
                            item.val[1] \in {CONST_Long, CONST_Double},
                            Append(items, item.val))

\* JavaConstantPool.unpack(unpacker): val is the new self.consts.
JavaConstantPool_unpack(s) ==
    LET c == Unpacker_unpack(s, <<"H">>)
    IN  IF c.exc # "" THEN c
        ELSE pool_loop(c.s, c.val[1] - 1, FALSE, <<<<None, None>>>>)

\* self.consts[index], for index >= 0: [exc, val].
consts_at(consts, index) ==
    IF index + 1 > Len(consts) THEN [exc |-> "IndexError", val |-> <<>>]
    ELSE [exc |-> "", val |-> consts[index + 1]]

\* get_const as it would be if it refused index 0 the way deref_const does.
get_const_refusing0(consts, index) ==
    IF index = 0 THEN [exc |-> "Exception", val |-> <<>>]
    ELSE consts_at(consts, index)

\* JavaConstantPool.get_const(index)
get_const(consts, index) == consts_at(consts, index)

\* The Python value of a scalar item's payload.
ScalarValue(t, v) ==
    IF t = CONST_Utf8 THEN PyUnicode(v)
    ELSE IF t \in {CONST_Float, CONST_Double} THEN PyFloat(v)
    ELSE PyInt(v)

\* deref as it would be if a Class or String entry gave its index back
\* instead of the entry the index names.
RECURSIVE deref_shallow(_, _, _)
deref_shallow(consts, index, active) ==
    IF index = 0 THEN [exc |-> "Exception", val |-> <<>>]
    ELSE LET item == consts_at(consts, index)
             t == item.val[1]
             v == item.val[2]
         IN  IF item.exc # "" THEN item
             ELSE IF t \in ScalarTags
                  THEN [exc |-> "", val |-> ScalarValue(t, v)]
             ELSE IF t \in RefTags THEN [exc |-> "", val |-> PyInt(v)]
             ELSE IF t \in PairTags THEN
                 LET a == deref_shallow(consts, v[1], active)
                     b == deref_shallow(consts, v[2], active)
                 IN  IF a.exc # "" THEN a
                     ELSE IF b.exc # "" THEN b
                     ELSE [exc |-> "", val |-> PyTuple(<<a.val, b.val>>)]
             ELSE [exc |-> "Unimplemented", val |-> <<>>]

\* deref under an interpreter with no limit on the depth of recursion:
\* meeting an index of the calls this one is nested in, it never returns.
RECURSIVE deref_nolimit(_, _, _)
deref_nolimit(consts, index, active) ==
    IF index = 0 THEN [exc |-> "Exception", val |-> <<>>]
    ELSE IF index \in active THEN [exc |-> "NeverReturns", val |-> <<>>]
    ELSE LET item == consts_at(consts, index)
             t == item.val[1]
             v == item.val[2]
             on == active \cup {index}
         IN  IF item.exc # "" THEN item
             ELSE IF t \in ScalarTags
                  THEN [exc |-> "", val |-> ScalarValue(t, v)]
             ELSE IF t \in RefTags THEN deref_nolimit(consts, v, on)
             ELSE IF t \in PairTags THEN
                 LET a == deref_nolimit(consts, v[1], on)
                     b == deref_nolimit(consts, v[2], on)
                 IN  IF a.exc # "" THEN a
                     ELSE IF b.exc # "" THEN b
                     ELSE [exc |-> "", val |-> PyTuple(<<a.val, b.val>>)]
             ELSE [exc |-> "Unimplemented", val |-> <<>>]

\* JavaConstantPool.deref_const(index): [exc, val].  active holds the indices
\* of the calls this one is nested in: meeting one of them again, the
\* recursion repeats for ever and Python ends it with a RuntimeError
\* (maximum recursion depth exceeded).
RECURSIVE deref(_, _, _)
deref(consts, index, active) ==
    IF index = 0 THEN [exc |-> "Exception", val |-> <<>>]
    ELSE IF index \in active THEN [exc |-> "RuntimeError", val |-> <<>>]
    ELSE LET item == consts_at(consts, index)
             t == item.val[1]
             v == item.val[2]
             on == active \cup {index}
         IN  IF item.exc # "" THEN item
             ELSE IF t \in ScalarTags
                  THEN [exc |-> "", val |-> ScalarValue(t, v)]
             ELSE IF t \in RefTags THEN deref(consts, v, on)
             ELSE IF t \in PairTags THEN
                 LET a == deref(consts, v[1], on)
                     b == deref(consts, v[2], on)
                 IN  IF a.exc # "" THEN a
                     ELSE IF b.exc # "" THEN b
                     ELSE [exc |-> "", val |-> PyTuple(<<a.val, b.val>>)]
             ELSE [exc |-> "Unimplemented", val |-> <<>>]

deref_const(consts, index) == deref(consts, index, {})

(***************************************************************************)
(* Type descriptors.  A str or buffer is a sequence of code points;        *)
(* buffer(buff, i) is the suffix of buff from offset i.                     *)
(***************************************************************************)
\* s.find(c) + 1: the 1-based place of the first c in s, 0 when there is none.
RECURSIVE FindPlus1(_, _, _)
FindPlus1(s, c, i) ==
    IF i > Len(s) THEN 0
    ELSE IF s[i] = c THEN i
    ELSE FindPlus1(s, c, i + 1)

PrimitiveCodes == {Ord(c) : c \in {"V", "Z", "B", "C", "S", "I", "J", "D", "F"}}

Suffix(buff, i) == SubSeq(buff, i + 1, Len(buff))

\* _next_argsig as it would be if the "L" token stopped short of its ";".
RECURSIVE next_argsig_short(_)
next_argsig_short(buff) ==
    IF buff = <<>> THEN [exc |-> "IndexError", tok |-> <<>>, rest |-> buff]
    ELSE LET c == buff[1]
         IN  IF c \in PrimitiveCodes
             THEN [exc |-> "", tok |-> <<c>>, rest |-> Suffix(buff, 1)]
             ELSE IF c = Ord("[") THEN
                 LET d == next_argsig_short(Suffix(buff, 1))
                 IN  IF d.exc # "" THEN d
                     ELSE [exc |-> "", tok |-> <<c>> \o d.tok, rest |-> d.rest]
             ELSE IF c = Ord("L") THEN
                 LET i == FindPlus1(buff, Ord(";"), 1)
                 IN  [exc |-> "", tok |-> SubSeq(buff, 1, i - 1), rest |-> Suffix(buff, i)]
             ELSE IF c = Ord("(") THEN
                 LET i == FindPlus1(buff, Ord(")"), 1)
                 IN  [exc |-> "", tok |-> SubSeq(buff, 1, i), rest |-> Suffix(buff, i)]
             ELSE [exc |-> "Unimplemented", tok |-> <<>>, rest |-> buff]

\* _next_argsig(buff): [exc, tok, rest].
RECURSIVE next_argsig(_)
next_argsig(buff) ==
    IF buff = <<>> THEN [exc |-> "IndexError", tok |-> <<>>, rest |-> buff]
    ELSE LET c == buff[1]
         IN  IF c \in PrimitiveCodes
             THEN [exc |-> "", tok |-> <<c>>, rest |-> Suffix(buff, 1)]
             ELSE IF c = Ord("[") THEN
                 LET d == next_argsig(Suffix(buff, 1))
                 IN  IF d.exc # "" THEN d
                     ELSE [exc |-> "", tok |-> <<c>> \o d.tok, rest |-> d.rest]
             ELSE IF c = Ord("L") THEN
                 LET i == FindPlus1(buff, Ord(";"), 1)
                 IN  [exc |-> "", tok |-> SubSeq(buff, 1, i), rest |-> Suffix(buff, i)]
             ELSE IF c = Ord("(") THEN
                 LET i == FindPlus1(buff, Ord(")"), 1)
                 IN  [exc |-> "", tok |-> SubSeq(buff, 1, i), rest |-> Suffix(buff, i)]
             ELSE [exc |-> "Unimplemented", tok |-> <<>>, rest |-> buff]

\* The while loop of _typeseq_iter, run to its end by tuple(): [exc, val].
\* A call of _next_argsig that hands back the buffer it was given is repeated
\* for ever: "NeverReturns".
RECURSIVE typeseq_loop(_, _)
typeseq_loop(buff, acc) ==
    IF buff = <<>> THEN [exc |-> "", val |-> acc]
    ELSE LET r == next_argsig(buff)
         IN  IF r.exc # "" THEN [exc |-> r.exc, val |-> <<>>]
             ELSE IF r.rest = buff THEN [exc |-> "NeverReturns", val |-> <<>>]
             ELSE typeseq_loop(r.rest, Append(acc, r.tok))

\* _typeseq(s) of a str or unicode s; str(s) fails on a non-ASCII unicode.
typeseq(s) ==
    IF \E i \in 1..Len(s) : s[i] >= 128
    THEN [exc |-> "UnicodeEncodeError", val |-> <<>>]
    ELSE typeseq_loop(s, <<>>)

\* sep.join(strs)
RECURSIVE Join(_, _)
Join(sep, strs) ==
    IF strs = <<>> THEN <<>>
    ELSE IF Len(strs) = 1 THEN strs[1]
    ELSE strs[1] \o sep \o Join(sep, Tail(strs))

\* s.replace(old, new) for single characters
Replace(s, old, new) == [i \in 1..Len(s) |-> IF s[i] = old THEN new ELSE s[i]]

\* _pretty_class(s)
pretty_class(s) == Replace(s, Ord("/"), Ord("."))

\* s[1:-1]
Inner(s) == SubSeq(s, 2, Len(s) - 1)

PrimitiveName(tc) ==
    CASE tc = Ord("V") -> Str(<<"v", "o", "i", "d">>)
      [] tc = Ord("Z") -> Str(<<"b", "o", "o", "l", "e", "a", "n">>)
      [] tc = Ord("C") -> Str(<<"c", "h", "a", "r">>)
      [] tc = Ord("B") -> Str(<<"b", "y", "t", "e">>)
      [] tc = Ord("S") -> Str(<<"s", "h", "o", "r", "t">>)
      [] tc = Ord("I") -> Str(<<"i", "n", "t">>)
      [] tc = Ord("J") -> Str(<<"l", "o", "n", "g">>)
      [] tc = Ord("D") -> Str(<<"d", "o", "u", "b", "l", "e">>)
      [] tc = Ord("F") -> Str(<<"f", "l", "o", "a", "t">>)

\* _pretty_type(s) and _pretty_typeseq(s) run to its end: [exc, val].
\* _pretty_typeseq applies _pretty_type to each token as it is yielded, so an
\* empty token (an "L" or "(" never closed) ends in _pretty_type's IndexError.
RECURSIVE pretty_type(_)
RECURSIVE pretty_typeseq_loop(_, _)
pretty_typeseq(s) ==
    IF \E i \in 1..Len(s) : s[i] >= 128
    THEN [exc |-> "UnicodeEncodeError", val |-> <<>>]
    ELSE pretty_typeseq_loop(s, <<>>)

pretty_typeseq_loop(buff, acc) ==
    IF buff = <<>> THEN [exc |-> "", val |-> acc]
    ELSE LET r == next_argsig(buff)
             p == pretty_type(r.tok)
         IN  IF r.exc # "" THEN [exc |-> r.exc, val |-> <<>>]
             ELSE IF p.exc # "" THEN p
             ELSE pretty_typeseq_loop(r.rest, Append(acc, p.val))

pretty_type(s) ==
    IF s = <<>> THEN [exc |-> "IndexError", val |-> <<>>]
    ELSE LET tc == s[1]
         IN  IF tc = Ord("(") THEN
                 LET ps == pretty_typeseq(Inner(s))
                 IN  IF ps.exc # "" THEN ps
                     ELSE [exc |-> "",
                           val |-> Str(<<"(">>) \o Join(Str(<<",">>), ps.val)
                                   \o Str(<<")">>)]
             ELSE IF tc \in PrimitiveCodes
                  THEN [exc |-> "", val |-> PrimitiveName(tc)]
             ELSE IF tc = Ord("T")
                  THEN [exc |-> "",
                        val |-> Str(<<"g", "e", "n", "e", "r", "i", "c", " ">>)
                                \o Tail(s)]
             ELSE IF tc = Ord("L")
                  THEN [exc |-> "", val |-> pretty_class(Inner(s))]
             ELSE IF tc = Ord("[") THEN
                 LET e == pretty_type(Tail(s))
                 IN  IF e.exc # "" THEN e
                     ELSE [exc |-> "", val |-> e.val \o Str(<<"[", "]">>)]
             ELSE [exc |-> "Unimplemented", val |-> <<>>]

(***************************************************************************)
(* JavaConstantPool.pretty_deref_const.  Where the pool's references are   *)
(* ill-typed the code meets values of the wrong Python type; the model     *)
(* follows it except for the text of str(x) of a float or a tuple and      *)
(* _pretty_type of a tuple, whose outcome is "NotModelled".                *)
(***************************************************************************)
Raised(e) == [exc |-> e, val |-> <<>>]
Value(v) == [exc |-> "", val |-> v]

IsText(x) == x.ty \in {"unicode", "str"}

Digit(d) == <<Ord("0") + d>>

\* str(n) of an integer
RECURSIVE IntToStr(_)
IntToStr(n) ==
    IF n < 0 THEN Str(<<"-">>) \o IntToStr(-n)
    ELSE IF n < 10 THEN Digit(n)
    ELSE IntToStr(n \div 10) \o Digit(n % 10)

\* "%s" % x
Format(x) ==
    IF IsText(x) THEN Value(x.v)
    ELSE IF x.ty = "int" THEN Value(IntToStr(x.v))
    ELSE Raised("NotModelled")

\* str(x)
ToStr(x) ==
    IF x.ty = "unicode" /\ \E i \in 1..Len(x.v) : x.v[i] >= 128
    THEN Raised("UnicodeEncodeError")
    ELSE Format(x)

\* a, b = x
Unpack2(x) ==
    IF x.ty = "tuple" THEN Value(x.v)
    ELSE IF IsText(x)
         THEN IF Len(x.v) = 2
              THEN Value(<<[x EXCEPT !.v = <<x.v[1]>>], [x EXCEPT !.v = <<x.v[2]>>]>>)
              ELSE Raised("ValueError")
    ELSE Raised("TypeError")

\* _pretty_class(x): x.replace("/", ".")
pretty_class_of(x) ==
    IF IsText(x) THEN Value(pretty_class(x.v)) ELSE Raised("AttributeError")

\* _pretty_type(x)
pretty_type_of(x) ==
    IF IsText(x) THEN pretty_type(x.v)
    ELSE IF x.ty = "tuple" THEN Raised("NotModelled")
    ELSE Raised("TypeError")

\* tuple(_pretty_typeseq(x)): str(x) of a number starts with a digit, "-",
\* "n" or "i", none of them a descriptor code.
pretty_typeseq_of(x) ==
    IF IsText(x) THEN pretty_typeseq(x.v)
    ELSE IF x.ty = "tuple" THEN Raised("NotModelled")
    ELSE Raised("Unimplemented")

\* JavaConstantPool.pretty_deref_const(index): [exc, val].
pretty_deref_const(consts, index) ==
    LET item == consts_at(consts, index)
        t == item.val[1]
        v == item.val[2]
    IN  IF item.exc # "" THEN item
        ELSE IF t = CONST_String THEN
            LET d == deref_const(consts, v)
            IN  IF d.exc # "" THEN d ELSE ToStr(d.val)
        ELSE IF t = CONST_Class THEN
            LET d == deref_const(consts, v)
            IN  IF d.exc # "" THEN d ELSE pretty_class_of(d.val)
        ELSE IF t = CONST_Fieldref THEN
            LET d == deref_const(consts, v[1])
                cn == pretty_class_of(d.val)
                e == deref_const(consts, v[2])
                nt == Unpack2(e.val)
                ty == pretty_type_of(nt.val[2])
                n == Format(nt.val[1])
            IN  IF d.exc # "" THEN d
                ELSE IF cn.exc # "" THEN cn
                ELSE IF e.exc # "" THEN e
                ELSE IF nt.exc # "" THEN nt
                ELSE IF ty.exc # "" THEN ty
                ELSE IF n.exc # "" THEN n
                ELSE Value(cn.val \o Str(<<".">>) \o n.val \o Str(<<":">>) \o ty.val)
        ELSE IF t \in {CONST_Methodref, CONST_InterfaceMethodref} THEN
            LET d == deref_const(consts, v[1])
                cn == pretty_class_of(d.val)
                e == deref_const(consts, v[2])
                nt == Unpack2(e.val)
                ts == pretty_typeseq_of(nt.val[2])
                n == Format(nt.val[1])
            IN  IF d.exc # "" THEN d
                ELSE IF cn.exc # "" THEN cn
                ELSE IF e.exc # "" THEN e
                ELSE IF nt.exc # "" THEN nt
                ELSE IF ts.exc # "" THEN ts
                ELSE IF Len(ts.val) # 2 THEN Raised("ValueError")
                ELSE IF n.exc # "" THEN n
                ELSE Value(cn.val \o Str(<<".">>) \o n.val \o ts.val[1]
                           \o Str(<<":">>) \o ts.val[2])
        ELSE IF t = CONST_NameAndType THEN
            LET a == deref_const(consts, v[1])
                b == deref_const(consts, v[2])
                bs == pretty_typeseq_of(b.val)
                n == Format(a.val)
            IN  IF a.exc # "" THEN a
                ELSE IF b.exc # "" THEN b
                ELSE IF bs.exc # "" THEN bs
                ELSE IF n.exc # "" THEN n
                ELSE Value(n.val \o Str(<<":">>) \o Join(<<>>, bs.val))
        ELSE IF t = CONST_ModuleIdInfo THEN
            LET a == deref_const(consts, v[1])
                b == deref_const(consts, v[2])
                n == Format(a.val)
                m == Format(b.val)
            IN  IF a.exc # "" THEN a
                ELSE IF b.exc # "" THEN b
                ELSE IF n.exc # "" THEN n
                ELSE IF m.exc # "" THEN m
                ELSE Value(n.val \o Str(<<"@">>) \o m.val)
        ELSE IF t = None THEN Value(<<>>)
        ELSE Raised("Unimplemented")

(***************************************************************************)
(* Unpacker construction, and the class file structures read through it.   *)
(* A data object is [kind, s, pre]: kind "str" or "buffer" (s.buf is its   *)
(* content), "stream" (a file-like object), "reader" (an object with read  *)
(* but no close), "other" (none of these), "file" (a path naming a file of *)
(* content s.buf) or "missing" (a path naming no file); pre holds what the *)
(* caller has read off a stream itself.                                    *)
(***************************************************************************)
\* Unpacker.__init__(data): s is self.stream.  For a stream or reader that
\* is the caller's own object, for a str or buffer a new StringIO.
Unpacker_init(d) ==
    IF d.kind \in {"str", "buffer"} THEN Return(0, StringIO(d.s.buf))
    ELSE IF d.kind \in {"stream", "reader"} THEN Return(0, d.s)
    ELSE Raise("TypeError", d.s)

\* A dict that keeps the value first written under a key.
RECURSIVE DictSet_keep_first(_, _, _)
DictSet_keep_first(d, k, v) ==
    IF d = <<>> THEN <<<<k, v>>>>
    ELSE IF SameValue(Head(d)[1], k) THEN d
    ELSE <<Head(d)>> \o DictSet_keep_first(Tail(d), k, v)

\* A dict as the sequence of its <<key, value>> pairs: d[k] = v
RECURSIVE DictSet(_, _, _)
DictSet(d, k, v) ==
    IF d = <<>> THEN <<<<k, v>>>>
    ELSE IF SameValue(Head(d)[1], k) THEN <<<<Head(d)[1], v>>>> \o Tail(d)
    ELSE <<Head(d)>> \o DictSet(Tail(d), k, v)

\* Sequencing: the statements K after a call whose outcome is r run only
\* when the call returned.
Bind(r, K(_)) == IF r.exc # "" THEN r ELSE K(r)

\* The outcome r of a call that does not touch the stream, at stream s.
At(r, s) == [exc |-> r.exc, val |-> r.val, s |-> s]

\* The for loop of JavaAttributes.unpack.  In self[cval(name)] = read(size)
\* the right-hand side is evaluated first.
RECURSIVE attribs_loop(_, _, _, _)
attribs_loop(s, consts, count, attribs) ==
    IF count <= 0 THEN Return(attribs, s)
    ELSE Bind(Unpacker_unpack(s, <<"H", "I">>), LAMBDA h :
         Bind(Unpacker_read(h.s, h.val[2]), LAMBDA b :
         Bind(At(deref_const(consts, h.val[1]), b.s), LAMBDA k :
              attribs_loop(b.s, consts, count - 1,
                           DictSet(attribs, k.val, b.val)))))

\* JavaAttributes.unpack(unpacker)
JavaAttributes_unpack(s, consts) ==
    Bind(Unpacker_unpack(s, <<"H">>), LAMBDA c :
         attribs_loop(c.s, consts, c.val[1], <<>>))

\* JavaMemberInfo.unpack(unpacker)
JavaMemberInfo_unpack(s, consts, is_method) ==
    Bind(Unpacker_unpack(s, <<"H", "H", "H">>), LAMBDA h :
    Bind(JavaAttributes_unpack(h.s, consts), LAMBDA a :
         Return([access_flags |-> h.val[1], name_ref |-> h.val[2],
                 descriptor_ref |-> h.val[3], attribs |-> a.val,
                 is_method |-> is_method], a.s)))

\* Unpacker._unpack_objects(count, JavaMemberInfo, cpool, is_method)
RECURSIVE unpack_objects_loop(_, _, _, _, _)
unpack_objects_loop(s, consts, is_method, count, acc) ==
    IF count <= 0 THEN Return(acc, s)
    ELSE Bind(JavaMemberInfo_unpack(s, consts, is_method), LAMBDA o :
              unpack_objects_loop(o.s, consts, is_method, count - 1,
                                  Append(acc, o.val)))

\* Unpacker.unpack_objects(JavaMemberInfo, cpool, is_method)
Unpacker_unpack_objects(s, consts, is_method) ==
    Bind(Unpacker_unpack(s, <<"H">>), LAMBDA c :
         unpack_objects_loop(c.s, consts, is_method, c.val[1], <<>>))

\* magic or unpacker.unpack(">BBBB")
magic_or_unpack(magic, s) ==
    IF Truthy(magic) THEN Return(magic, s)
    ELSE Bind(Unpacker_unpack(s, <<"B", "B", "B", "B">>), LAMBDA r :
              Return(PyTuple(r.val), r.s))

\* JavaClassInfo.unpack(unpacker, magic); a str magic becomes the tuple of
\* its bytes.
JavaClassInfo_unpack(s, magic) ==
    Bind(magic_or_unpack(magic, s), LAMBDA m :
    IF ~SameBytesValue(PyTuple(m.val.v), PyTuple(JAVA_CLASS_MAGIC))
    THEN Raise("Exception", m.s)
    ELSE
    Bind(Unpacker_unpack(m.s, <<"H", "H">>), LAMBDA version :
    Bind(JavaConstantPool_unpack(version.s), LAMBDA pool :
    Bind(Unpacker_unpack(pool.s, <<"H", "H", "H">>), LAMBDA h :
    Bind(Unpacker_unpack(h.s, <<"H">>), LAMBDA icount :
    Bind(Unpacker_unpack_repeat(icount.s, icount.val[1], "H"), LAMBDA interfaces :
    Bind(Unpacker_unpack_objects(interfaces.s, pool.val, FALSE), LAMBDA fields :
    Bind(Unpacker_unpack_objects(fields.s, pool.val, TRUE), LAMBDA methods :
    Bind(JavaAttributes_unpack(methods.s, pool.val), LAMBDA attribs :
         Return([magic |-> m.val.v,
                 version |-> <<version.val[2], version.val[1]>>,
                 consts |-> pool.val,
                 access_flags |-> h.val[1],
                 this_ref |-> h.val[2],
                 super_ref |-> h.val[3],
                 interfaces |-> interfaces.val,
                 fields |-> fields.val,
                 methods |-> methods.val,
                 attribs |-> attribs.val], attribs.s))))))))))

\* An __exit__ that does not close.
Unpacker_exit_open(r) == r

\* Unpacker.__exit__ after a with block of outcome r: close, and let an
\* exception through.
Unpacker_exit(r) == [r EXCEPT !.s = Unpacker_close(r.s)]

\* except: return False
except_return_False(r) == IF r.exc # "" THEN Return(FALSE, r.s) ELSE r

\* is_class with a with block that leaves the stream as it is.
is_class_leaving_open(d) ==
    except_return_False(
        Bind(Unpacker_init(d), LAMBDA u :
             Unpacker_exit_open(
                 Bind(Unpacker_unpack(u.s, <<"B", "B", "B", "B">>), LAMBDA magic :
                      Return(magic.val = JAVA_CLASS_MAGIC, magic.s)))))

\* is_class as it would be without its try and except.
is_class_unguarded(d) ==
    Bind(Unpacker_init(d), LAMBDA u :
         Unpacker_exit(
             Bind(Unpacker_unpack(u.s, <<"B", "B", "B", "B">>), LAMBDA magic :
                  Return(magic.val = JAVA_CLASS_MAGIC, magic.s))))

\* is_class(data): s is the stream the Unpacker was over.
is_class(d) ==
    except_return_False(
        Bind(Unpacker_init(d), LAMBDA u :
             Unpacker_exit(
                 Bind(Unpacker_unpack(u.s, <<"B", "B", "B", "B">>), LAMBDA magic :
                      Return(magic.val = JAVA_CLASS_MAGIC, magic.s)))))

\* is_class_file(filename): s is fd.  c is the bool is_class returns, and the
\* value returned is that bool compared with a str.
is_class_file(d) ==
    IF d.kind # "file" THEN Raise("IOError", d.s)
    ELSE Bind(stream_read(StringIO(d.s.buf), 4), LAMBDA four :
         Bind(is_class([kind |-> "str", s |-> StringIO(four.val), pre |-> <<>>]),
              LAMBDA c :
              Return(SameBytesValue(PyBool(c.val), PyStr(JAVA_CLASS_MAGIC_STR)),
                     stream_close(four.s))))

\* unpack_class(data, magic)
unpack_class(d, magic) ==
    Bind(Unpacker_init(d), LAMBDA u :
         Unpacker_exit(
             Bind(magic_or_unpack(magic, u.s), LAMBDA m :
                  IF ~SameBytesValue(m.val, PyTuple(JAVA_CLASS_MAGIC))
                  THEN Raise(UnpackException(1), m.s)
                  ELSE JavaClassInfo_unpack(m.s, m.val))))

(***************************************************************************)
(* JavaMemberInfo: a member m is [access_flags, name_ref, descriptor_ref,  *)
(* attribs, is_method], read against the pool consts of its class.         *)
(***************************************************************************)
\* self.access_flags & ACC_X, as a truth value; acc is a single bit.
HasFlag(access_flags, acc) == (access_flags \div acc) % 2 = 1

\* JavaMemberInfo.get_name()
get_name(consts, m) == deref_const(consts, m.name_ref)

\* JavaMemberInfo.get_descriptor()
get_descriptor(consts, m) == deref_const(consts, m.descriptor_ref)

\* _typeseq(x) of a Python value x: the tokens of str(x).
typeseq_of(x) ==
    IF IsText(x) THEN typeseq(x.v)
    ELSE IF x.ty = "int" THEN typeseq(IntToStr(x.v))
    ELSE Raised("NotModelled")

\* JavaMemberInfo.get_type_descriptor(): _typeseq(...)[-1]
get_type_descriptor(consts, m) ==
    Bind(get_descriptor(consts, m), LAMBDA d :
    Bind(typeseq_of(d.val), LAMBDA tp :
         IF tp.val = <<>> THEN Raised("IndexError")
         ELSE Value(tp.val[Len(tp.val)])))

\* JavaMemberInfo.get_arg_type_descriptors(): the tokens of tp[0][1:-1]
get_arg_type_descriptors(consts, m) ==
    IF ~m.is_method THEN Value(<<>>)
    ELSE Bind(get_descriptor(consts, m), LAMBDA d :
         Bind(typeseq_of(d.val), LAMBDA tp :
              IF tp.val = <<>> THEN Raised("IndexError")
              ELSE typeseq(Inner(tp.val[1]))))

\* JavaMemberInfo.pretty_type()
member_pretty_type(consts, m) ==
    Bind(get_type_descriptor(consts, m), LAMBDA t : pretty_type(t.val))

\* (_pretty_type(t) for t in types), run to its end
RECURSIVE pretty_each(_, _)
pretty_each(types, acc) ==
    IF types = <<>> THEN Value(acc)
    ELSE Bind(pretty_type(Head(types)), LAMBDA p :
              pretty_each(Tail(types), Append(acc, p.val)))

\* JavaMemberInfo.pretty_arg_types(), run to its end
pretty_arg_types(consts, m) ==
    IF m.is_method
    THEN Bind(get_arg_type_descriptors(consts, m), LAMBDA types :
              pretty_each(types.val, <<>>))
    ELSE Value(<<>>)

\* "%s(%s)" % (id, args)
WithArgs(id, args) ==
    Bind(Format(id), LAMBDA f :
         Value(PyUnicode(f.val \o Str(<<"(">>) \o Join(Str(<<",">>), args)
                         \o Str(<<")">>))))

\* get_identifier() with a bridge method named as any other method.
get_identifier_plain(consts, m) ==
    Bind(get_name(consts, m), LAMBDA id :
         IF ~m.is_method THEN id
         ELSE Bind(get_arg_type_descriptors(consts, m), LAMBDA args :
                   WithArgs(id.val, args.val)))

\* JavaMemberInfo.get_identifier(): val is a Python value (for a field the
\* name as it was dereferenced).
get_identifier(consts, m) ==
    Bind(get_name(consts, m), LAMBDA id :
         IF ~m.is_method THEN id
         ELSE Bind(get_arg_type_descriptors(consts, m), LAMBDA args :
              IF HasFlag(m.access_flags, ACC_BRIDGE)
              THEN Bind(get_descriptor(consts, m), LAMBDA d :
                   Bind(WithArgs(id.val, args.val), LAMBDA ia :
                   Bind(Format(d.val), LAMBDA fd :
                        Value(PyUnicode(ia.val.v \o Str(<<":">>) \o fd.val)))))
              ELSE WithArgs(id.val, args.val)))

\* JavaMemberInfo.pretty_identifier(): val is the text
pretty_identifier(consts, m) ==
    Bind(get_name(consts, m), LAMBDA n :
    Bind(IF m.is_method
         THEN Bind(pretty_arg_types(consts, m), LAMBDA args :
                   WithArgs(n.val, args.val))
         ELSE n, LAMBDA id :
    Bind(member_pretty_type(consts, m), LAMBDA p :
    Bind(Format(id.val), LAMBDA f :
         Value(f.val \o Str(<<":">>) \o p.val)))))

(***************************************************************************)
(* JavaClassInfo: provides and requires.  A class c is [info, build,       *)
(* provides, provides_private, requires]: info is the unpacked class,      *)
(* build the interpreter's unicode representation, and the other three the *)
(* cached sets _provides, _provides_private and _requires (None at first). *)
(***************************************************************************)
NoSet == [present |-> FALSE, set |-> {}]
SomeSet(S) == [present |-> TRUE, set |-> S]

\* An outcome that carries the class as the call leaves it.
ReturnC(v, c) == [exc |-> "", val |-> v, c |-> c]
RaiseC(e, c) == [exc |-> e, val |-> {}, c |-> c]

\* fnmatch(n, pattern), for a pattern that is literal but for a "*" at its
\* end.
fnmatch(n, pattern) ==
    IF pattern # <<>> /\ pattern[Len(pattern)] = Ord("*")
    THEN Len(n) >= Len(pattern) - 1
         /\ SubSeq(n, 1, Len(pattern) - 1) = SubSeq(pattern, 1, Len(pattern) - 1)
    ELSE n = pattern

\* dirutils.fnmatches(n, *patterns)
fnmatches(n, patterns) == \E k \in 1..Len(patterns) : fnmatch(n, patterns[k])

\* filter(lambda n: not fnmatches(n, *ignored), names) when ignored is not
\* empty; the names in some order, here as a set.
Ignoring(names, ignored) ==
    IF ignored # <<>> THEN {n \in names : ~fnmatches(n, ignored)} ELSE names

\* JavaClassInfo.pretty_this()
pretty_this(info) ==
    Bind(deref_const(info.consts, info.this_ref), LAMBDA t : pretty_class_of(t.val))

\* One of the two for loops of _get_provides, over fields or over methods.
RECURSIVE provides_loop(_, _, _, _, _)
provides_loop(consts, me, members, private, acc) ==
    IF members = <<>> THEN Value(acc)
    ELSE IF private \/ HasFlag(Head(members).access_flags, ACC_PUBLIC)
    THEN Bind(pretty_identifier(consts, Head(members)), LAMBDA id :
              provides_loop(consts, me, Tail(members), private,
                            acc \cup {me \o Str(<<".">>) \o id.val}))
    ELSE provides_loop(consts, me, Tail(members), private, acc)

\* set(self._get_provides(private))
get_provides_gen(info, private) ==
    Bind(pretty_this(info), LAMBDA me :
    Bind(provides_loop(info.consts, me.val, info.fields, private, {me.val}),
         LAMBDA fs :
         provides_loop(info.consts, me.val, info.methods, private, fs.val)))

\* The rest of get_provides once the set g is there or its making failed.
provides_result(c, g, ignored, private) ==
    IF g.exc # "" THEN RaiseC(g.exc, c)
    ELSE ReturnC(Ignoring(g.val, ignored),
                 IF private THEN [c EXCEPT !.provides_private = SomeSet(g.val)]
                 ELSE [c EXCEPT !.provides = SomeSet(g.val)])

\* JavaClassInfo.get_provides(ignored, private)
get_provides(c, ignored, private) ==
    IF private /\ c.provides_private.present
    THEN ReturnC(Ignoring(c.provides_private.set, ignored), c)
    ELSE IF ~private /\ c.provides.present
    THEN ReturnC(Ignoring(c.provides.set, ignored), c)
    ELSE provides_result(c, get_provides_gen(c.info, private), ignored, private)

\* The bytes buffer(u) shows of a unicode u: its code units as the build
\* stores them, 2 or 4 bytes each, in the machine's byte order.
UnitBytes(unit, build) ==
    LET le == <<unit % 256, (unit \div 256) % 256>>
             \o (IF build.width = 4 THEN <<(unit \div 65536) % 256, 0>> ELSE <<>>)
    IN  IF build.little THEN le ELSE [k \in 1..Len(le) |-> le[Len(le) + 1 - k]]

CodeUnits(cp, build) ==
    IF cp >= 65536 /\ build.width = 2
    THEN <<55296 + ((cp - 65536) \div 1024), 56320 + ((cp - 65536) % 1024)>>
    ELSE <<cp>>

RECURSIVE UnicodeBuffer(_, _)
UnicodeBuffer(u, build) ==
    IF u = <<>> THEN <<>>
    ELSE LET units == CodeUnits(Head(u), build)
         IN  UnitBytes(units[1], build)
             \o (IF Len(units) = 2 THEN UnitBytes(units[2], build) ELSE <<>>)
             \o UnicodeBuffer(Tail(u), build)

\* _get_requires on an entry whose pretty form pv begins with "[": val is
\* the new pv, <<>> standing for None.
array_requires(pv, build) ==
    Bind(next_argsig(UnicodeBuffer(pv, build)), LAMBDA r :
         IF Len(r.tok) < 2 THEN Raised("IndexError")
         ELSE IF r.tok[2] = Ord("L") THEN pretty_type(Tail(r.tok))
         ELSE Value(<<>>))

\* What one pool entry of the four tags adds to the requires.
entry_requires(consts, build, i) ==
    Bind(pretty_deref_const(consts, i), LAMBDA pv :
         IF pv.val = <<>> THEN Raised("IndexError")
         ELSE IF pv.val[1] = Ord("[") THEN array_requires(pv.val, build)
         ELSE pv)

RequiresTags == {CONST_Class, CONST_Fieldref, CONST_Methodref,
                 CONST_InterfaceMethodref}

\* The loop without its test of pv against the provided names.
RECURSIVE requires_loop_unfiltered(_, _, _, _, _)
requires_loop_unfiltered(consts, build, provided, i, acc) ==
    IF i >= Len(consts) THEN Value(acc)
    ELSE IF consts[i + 1][1] = None
    THEN requires_loop_unfiltered(consts, build, provided, i + 1, acc)
    ELSE Bind(deref_const(consts, i), LAMBDA d :
         IF consts[i + 1][1] \in RequiresTags
         THEN Bind(entry_requires(consts, build, i), LAMBDA pv :
                   requires_loop_unfiltered(consts, build, provided, i + 1,
                                 IF pv.val # <<>> THEN acc \cup {pv.val} ELSE acc))
         ELSE requires_loop_unfiltered(consts, build, provided, i + 1, acc))

\* The loop of _get_requires over cpool.constants(), which dereferences
\* every entry it yields.
RECURSIVE requires_loop(_, _, _, _, _)
requires_loop(consts, build, provided, i, acc) ==
    IF i >= Len(consts) THEN Value(acc)
    ELSE IF consts[i + 1][1] = None
    THEN requires_loop(consts, build, provided, i + 1, acc)
    ELSE Bind(deref_const(consts, i), LAMBDA d :
         IF consts[i + 1][1] \in RequiresTags
         THEN Bind(entry_requires(consts, build, i), LAMBDA pv :
                   requires_loop(consts, build, provided, i + 1,
                                 IF pv.val # <<>> /\ pv.val \notin provided
                                 THEN acc \cup {pv.val} ELSE acc))
         ELSE requires_loop(consts, build, provided, i + 1, acc))

\* set(self._get_requires()), given the outcome p of its call of
\* get_provides(private=True), which may have filled _provides_private.
requires_result(c, g, ignored) ==
    IF g.exc # "" THEN RaiseC(g.exc, c)
    ELSE ReturnC(Ignoring(g.val, ignored), [c EXCEPT !.requires = SomeSet(g.val)])

get_requires_gen(p, ignored) ==
    IF p.exc # "" THEN p
    ELSE requires_result(p.c,
                         requires_loop(p.c.info.consts, p.c.build, p.val, 1, {}),
                         ignored)

\* JavaClassInfo.get_requires(ignored)
get_requires(c, ignored) ==
    IF c.requires.present THEN ReturnC(Ignoring(c.requires.set, ignored), c)
    ELSE get_requires_gen(get_provides(c, <<>>, TRUE), ignored)

(***************************************************************************)
(* Inputs: byte strings are built from the values they are to decode to.   *)
(***************************************************************************)
U8(n) == <<n>>
U16(n) == <<n \div 256, n % 256>>
U32(n) == <<0, 0, n \div 256, n % 256>>

RECURSIVE Concat(_)
Concat(seqs) == IF seqs = <<>> THEN <<>> ELSE Head(seqs) \o Concat(Tail(seqs))

SeqsUpTo(S, n) == UNION {[1..k -> S] : k \in 0..n}

Absent == [present |-> FALSE, buf |-> <<>>]
Present(bytes) == [present |-> TRUE, buf |-> bytes]

\* No call made yet.
NoCall == [called |-> FALSE, op |-> "", arg |-> 0, r |-> Return(0, StringIO(<<>>))]
Called(op, arg, r) == [called |-> TRUE, op |-> op, arg |-> arg, r |-> r]

\* Line-number tables as compilers write them: start_pc strictly increasing.
LineNumbers == {100, 101}
LineTables ==
    {t \in SeqsUpTo((0..MaxPc) \X LineNumbers, MaxLnt) :
        \A i \in 1..(Len(t) - 1) : t[i][1] < t[i + 1][1]}
LineTableBytes(t) ==
    U16(Len(t)) \o Concat([i \in 1..Len(t) |-> U16(t[i][1]) \o U16(t[i][2])])

IdleLine == lnattr = Absent /\ lres = NoCall
NoUnpacker == [made |-> FALSE, open |-> FALSE, own |-> FALSE, s |-> StringIO(<<>>)]
IdleIO == data = [kind |-> "other", s |-> StringIO(<<>>), pre |-> <<>>]
          /\ up = NoUnpacker
          /\ ret = NoCall
IdlePool == pin = <<>> /\ cpool = <<>> /\ pres = NoCall
IdleDesc == dsrc = <<>> /\ dbuff = <<>> /\ dtoks = <<>> /\ dpc = "idle"
NoClassCall == [called |-> FALSE, op |-> "", arg |-> <<>>, exc |-> "", val |-> {}]
IdleClass == cls = <<>> /\ cres = NoClassCall

(***************************************************************************)
(* SpecLine: a JavaCodeInfo with some line-number table, queried.          *)
(***************************************************************************)
InitLine ==
    /\ lnattr \in {Absent} \cup {Present(LineTableBytes(t)) : t \in LineTables}
    /\ lres = NoCall
    /\ IdleIO /\ IdlePool /\ IdleDesc /\ IdleClass

GetLineForOffset ==
    \E pc \in 0..(MaxPc + 1) :
        /\ lres' = Called("get_line_for_offset", pc, get_line_for_offset(lnattr, pc))
        /\ UNCHANGED <<lnattr, data, up, ret, pin, cpool, pres, dsrc, dbuff, dtoks, dpc,
                       cls, cres>>

NextLine == GetLineForOffset

SpecLine == InitLine /\ [][NextLine]_vars

\* The table the attribute holds, and what the contract asks of a lookup.
TableOf(attr) == get_linenumbertable(attr).val
LineAtOrBefore(lnt, pc) ==
    LET S == {i \in 1..Len(lnt) : lnt[i][1] <= pc}
    IN  IF S = {} THEN -1
        ELSE lnt[CHOOSE i \in S : \A j \in S : lnt[j][1] <= lnt[i][1]][2]

\* C1: get_line_for_offset(pc) returns the line number of the entry with the
\* largest start_pc <= pc, or -1 when there is none; never a code offset.
C1_LineOfLargestStartPc ==
    lres.called =>
        /\ lres.r.exc = ""
        /\ lres.r.val = LineAtOrBefore(TableOf(lnattr), lres.arg)

(***************************************************************************)
(* SpecPool: a JavaConstantPool unpacked from some bytes, then looked up.  *)
(* The inputs are a few well-formed pools, each with one entry varied (its *)
(* tag, one of its references, or the whole entry replaced by a special    *)
(* one), and each under every header count to MaxCount.                    *)
(***************************************************************************)
\* An entry given by its bytes rather than by tag and payload.
Raw(bytes) == <<-1, bytes>>

\* The bytes of a pool entry <<tag, payload>>.
ItemBytes(e) ==
    LET t == e[1]
        v == e[2]
    IN  IF t = -1 THEN v
        ELSE IF t = CONST_Utf8 THEN U8(t) \o U16(Len(v)) \o v
        ELSE IF t \in {CONST_Integer, CONST_Float} THEN U8(t) \o U32(v)
        ELSE IF t \in {CONST_Long, CONST_Double} THEN U8(t) \o U32(0) \o U32(v)
        ELSE IF t \in RefTags THEN U8(t) \o U16(v)
        ELSE U8(t) \o U16(v[1]) \o U16(v[2])

BasePools ==
    { <<<<CONST_Utf8, Str(<<"a", "/", "b">>)>>, <<CONST_Class, 1>>,
        <<CONST_Utf8, Str(<<"f">>)>>, <<CONST_Utf8, Str(<<"I">>)>>,
        <<CONST_NameAndType, <<3, 4>>>>, <<CONST_Fieldref, <<2, 5>>>>>>,
      <<<<CONST_Long, 5>>, <<CONST_Utf8, Str(<<"a">>)>>,
        <<CONST_String, 3>>, <<CONST_Double, 9>>>>,
      <<<<CONST_Utf8, Str(<<"m">>)>>, <<CONST_Utf8, Str(<<"(", "I", ")", "V">>)>>,
        <<CONST_NameAndType, <<1, 2>>>>, <<CONST_Utf8, Str(<<"[", "L", "a", ";">>)>>,
        <<CONST_Class, 4>>, <<CONST_Methodref, <<5, 3>>>>>>,
      <<<<CONST_Utf8, Str(<<"a">>)>>, <<CONST_Class, 1>>,
        <<CONST_Utf8, Str(<<"(", ")", "V">>)>>, <<CONST_NameAndType, <<1, 3>>>>,
        <<CONST_InterfaceMethodref, <<2, 4>>>>, <<CONST_ModuleIdInfo, <<1, 3>>>>>>,
      <<<<CONST_Utf8, Str(<<"a">>)>>, <<CONST_Integer, 3>>, <<CONST_Float, 4>>,
        <<CONST_Class, 1>>, <<CONST_Long, 5>>, <<CONST_Utf8, Str(<<"b">>)>>>> }

SpecialEntries ==
    {Raw(<<CONST_Utf8, 0, 2, 192, 128>>),          \* modified UTF-8 for U+0000
     Raw(<<CONST_Utf8, 0, 1, 255>>),               \* not UTF-8 at all
     Raw(<<CONST_Integer, 255, 255, 255, 255>>),   \* -1
     Raw(<<2>>), Raw(<<0>>),                       \* no such tags
     <<CONST_Utf8, <<>>>>, <<CONST_Utf8, Str(<<"L">>)>>,
     <<CONST_Long, 1>>, <<CONST_Integer, 1>>}

\* The entries that differ from e in the tag or in one reference.
Variants(e) ==
    LET t == e[1]
        v == e[2]
    IN  IF t \in RefTags
        THEN {<<u, v>> : u \in RefTags} \cup {<<t, r>> : r \in 0..MaxRef}
        ELSE IF t \in PairTags
        THEN {<<u, v>> : u \in PairTags}
             \cup {<<t, <<r, v[2]>>>> : r \in 0..MaxRef}
             \cup {<<t, <<v[1], r>>>> : r \in 0..MaxRef}
        ELSE IF t = CONST_Utf8 THEN {e}
        ELSE {<<u, v>> : u \in ScalarTags \ {CONST_Utf8}}

\* The header count that fits the entries: one slot each, two for a Long or
\* Double, and slot 0.
RECURSIVE SlotsOf(_)
SlotsOf(entries) ==
    IF entries = <<>> THEN 1
    ELSE (IF Head(entries)[1] \in {CONST_Long, CONST_Double} THEN 2 ELSE 1)
         + SlotsOf(Tail(entries))

PoolBytes(count, entries) ==
    U16(count) \o Concat([i \in 1..Len(entries) |-> ItemBytes(entries[i])])

PoolInputs ==
    UNION {UNION {{PoolBytes(SlotsOf(b), [b EXCEPT ![k] = m]) :
                       m \in Variants(b[k]) \cup SpecialEntries} :
                  k \in 1..Len(b)} :
           b \in BasePools}
    \cup {PoolBytes(c, b) : b \in BasePools, c \in 0..MaxCount}

InitPool ==
    /\ pin \in PoolInputs
    /\ cpool = <<>>
    /\ pres = NoCall
    /\ IdleLine /\ IdleIO /\ IdleDesc /\ IdleClass

PoolFrame == UNCHANGED <<lnattr, lres, data, up, ret, dsrc, dbuff, dtoks, dpc, cls, cres>>

\* cpool.unpack(Unpacker(pin)): self.consts is assigned when the loop is over.
PoolUnpack ==
    /\ ~pres.called
    /\ LET r == JavaConstantPool_unpack(StringIO(pin))
       IN  /\ pres' = Called("unpack", 0, r)
           /\ cpool' = IF r.exc = "" THEN r.val ELSE cpool
    /\ UNCHANGED pin
    /\ PoolFrame

\* A lookup on the unpacked pool; a caller repeats a lookup or goes on to
\* another index.
Lookup(op, index, r) ==
    /\ cpool # <<>>
    /\ pres.op \in {"unpack", op}
    /\ pres' = Called(op, index, [exc |-> r.exc, val |-> r.val, s |-> pres.r.s])
    /\ UNCHANGED <<pin, cpool>>
    /\ PoolFrame

GetConst == \E i \in 0..MaxRef : Lookup("get_const", i, get_const(cpool, i))

DerefConst == \E i \in 0..MaxRef : Lookup("deref_const", i, deref_const(cpool, i))

PrettyDerefConst ==
    \E i \in 0..MaxRef :
        Lookup("pretty_deref_const", i, pretty_deref_const(cpool, i))

NextPool == PoolUnpack \/ GetConst \/ DerefConst \/ PrettyDerefConst

SpecPool == InitPool /\ [][NextPool]_vars

(***************************************************************************)
(* Properties of the constant pool.                                        *)
(***************************************************************************)
\* The constant_pool_count header the pool was unpacked from.
HeaderCount == BigEndian(SubSeq(pin, 1, 2))

Unpacked == cpool # <<>>

\* The tag and payload of slot i (an index of the code).
TagAt(i) == cpool[i + 1][1]
PayloadAt(i) == cpool[i + 1][2]
Slots == 0..(Len(cpool) - 1)
TwoSlot(i) == TagAt(i) \in {CONST_Long, CONST_Double}

\* C7 as claimed: an unpacked pool has exactly HeaderCount slots, slot 0 is
\* the empty sentinel, and every Long or Double at index i is followed by an
\* existing, empty slot i + 1.
C7_SlotAccounting ==
    Unpacked =>
        /\ Len(cpool) = HeaderCount
        /\ TagAt(0) = None
        /\ \A i \in Slots : TwoSlot(i) => (i + 1 \in Slots /\ TagAt(i + 1) = None)

\* C7 as amended: the pool has HeaderCount slots, and one slot when the
\* header count is 0; slot 0 is the empty sentinel; a slot after slot 0 is
\* empty exactly when the slot before it holds a Long or Double, so the entry
\* decoded after a Long or Double at index i sits at index i + 2; a Long or
\* Double may be the last slot, HeaderCount - 1, with no slot after it.
C7_SlotAccountingAmended ==
    Unpacked =>
        /\ Len(cpool) = (IF HeaderCount = 0 THEN 1 ELSE HeaderCount)
        /\ TagAt(0) = None /\ PayloadAt(0) = None
        /\ \A i \in Slots \ {0} : (TagAt(i) = None) <=> TwoSlot(i - 1)
        /\ \A i \in Slots : TwoSlot(i) /\ i + 2 \in Slots => TagAt(i + 2) # None

\* A Long at index 5 with the next entry at index 7.
C7_Witness ==
    /\ Unpacked /\ Len(cpool) = 8
    /\ TagAt(5) = CONST_Long /\ TagAt(6) = None /\ TagAt(7) = CONST_Utf8

IsLookup == pres.called /\ pres.op \in {"get_const", "deref_const", "pretty_deref_const"}

\* C8 as claimed: every lookup of index 0 is an error.
C8_IndexZeroIsError ==
    (IsLookup /\ pres.arg = 0) => pres.r.exc # ""

\* C8 as amended: on an unpacked pool deref_const(0) raises, get_const(0)
\* returns the empty sentinel (None, None) and pretty_deref_const(0) returns
\* the empty string; the pool is as unpack left it.
C8_IndexZeroAmended ==
    (IsLookup /\ pres.arg = 0) =>
        /\ pres.op = "deref_const" => pres.r.exc = "Exception"
        /\ pres.op = "get_const" =>
               pres.r.exc = "" /\ pres.r.val[1] = None /\ pres.r.val[2] = None
        /\ pres.op = "pretty_deref_const" => pres.r.exc = "" /\ pres.r.val = <<>>
        /\ cpool = JavaConstantPool_unpack(StringIO(pin)).val

C8_Witness ==
    pres.called /\ pres.op = "get_const" /\ pres.arg = 0 /\ pres.r.exc = ""

\* The pool's cross-references are valid: each names a slot of the tag the
\* class file format asks for.
HasTag(i, tags) == i \in Slots /\ TagAt(i) \in tags
ValidRefs ==
    \A i \in Slots :
        /\ TagAt(i) \in RefTags => HasTag(PayloadAt(i), {CONST_Utf8})
        /\ TagAt(i) \in {CONST_NameAndType, CONST_ModuleIdInfo} =>
               /\ HasTag(PayloadAt(i)[1], {CONST_Utf8})
               /\ HasTag(PayloadAt(i)[2], {CONST_Utf8})
        /\ TagAt(i) \in {CONST_Fieldref, CONST_Methodref, CONST_InterfaceMethodref} =>
               /\ HasTag(PayloadAt(i)[1], {CONST_Class})
               /\ HasTag(PayloadAt(i)[2], {CONST_NameAndType})

\* What the contract gives for slot i of a pool with valid references.
Utf8At(i) == PyUnicode(PayloadAt(i))
NameAndTypeAt(i) == PyTuple(<<Utf8At(PayloadAt(i)[1]), Utf8At(PayloadAt(i)[2])>>)
Dereferenced(i) ==
    LET t == TagAt(i)
        v == PayloadAt(i)
    IN  IF t = CONST_Utf8 THEN PyUnicode(v)
        ELSE IF t \in {CONST_Integer, CONST_Long} THEN PyInt(v)
        ELSE IF t \in {CONST_Float, CONST_Double} THEN PyFloat(v)
        ELSE IF t \in RefTags THEN Utf8At(v)
        ELSE IF t \in {CONST_NameAndType, CONST_ModuleIdInfo} THEN NameAndTypeAt(i)
        ELSE PyTuple(<<Utf8At(PayloadAt(v[1])), NameAndTypeAt(v[2])>>)

\* C9: on a pool with valid references deref_const(i) returns the payload of
\* a scalar entry, the Utf8 string a Class or String entry names, and for a
\* compound entry the pair of its two dereferenced components; a repeated
\* call returns the same, and no call changes the pool.
C9_Deref ==
    [][(pres'.called /\ pres'.op = "deref_const") =>
          /\ cpool' = cpool
          /\ (pres.op = "deref_const" /\ pres.arg = pres'.arg) => pres'.r = pres.r
          /\ (ValidRefs /\ pres'.arg \in Slots /\ TagAt(pres'.arg) # None) =>
                 /\ pres'.r.exc = ""
                 /\ SameValue(pres'.r.val, Dereferenced(pres'.arg))]_vars

\* A Fieldref of a valid pool dereferenced twice in a row.
C9_Witness ==
    /\ pres.called /\ pres.op = "deref_const" /\ ValidRefs
    /\ pres.arg \in Slots /\ TagAt(pres.arg) = CONST_Fieldref
    /\ pres.r.exc = "" /\ pres.r.val.ty = "tuple"

(***************************************************************************)
(* SpecDesc: _typeseq(s), one _next_argsig call of _typeseq_iter's loop at *)
(* a time.  The inputs are the descriptors of a small grammar, the         *)
(* parameter strings inside them, every string to MaxDesc characters of a  *)
(* small alphabet, and the descriptor of the documentation's example.      *)
(***************************************************************************)
ArrayOf(types) == {Str(<<"[">>) \o t : t \in types}
BaseTypes == {Str(<<"I">>), Str(<<"L", "a", ";">>)}
FieldDescriptors == BaseTypes \cup ArrayOf(BaseTypes) \cup ArrayOf(ArrayOf({Str(<<"I">>)}))
ReturnDescriptors == FieldDescriptors \cup {Str(<<"V">>)}
ParameterStrings == {Concat(ps) : ps \in SeqsUpTo(FieldDescriptors, MaxParams)}
MethodDescriptors ==
    {Str(<<"(">>) \o ps \o Str(<<")">>) \o r :
        ps \in ParameterStrings, r \in ReturnDescriptors}

ExampleParameters ==
    Str(<<"L", "j", "a", "v", "a", "/", "l", "a", "n", "g", "/",
          "S", "t", "r", "i", "n", "g", ";", "[", "I">>)
ExampleDescriptor == Str(<<"(">>) \o ExampleParameters \o Str(<<")", "V">>)

DescAlphabet == {Ord(c) : c \in {"I", "[", "L", "a", ";", "(", ")", "T"}}

ValidDescriptors ==
    MethodDescriptors \cup FieldDescriptors \cup ParameterStrings
    \cup {ExampleDescriptor, ExampleParameters}

DescInputs == ValidDescriptors \cup SeqsUpTo(DescAlphabet, MaxDesc)

InitDesc ==
    /\ dsrc \in DescInputs
    /\ dbuff = <<>>
    /\ dtoks = <<>>
    /\ dpc = "start"
    /\ IdleLine /\ IdleIO /\ IdlePool /\ IdleClass

DescFrame == UNCHANGED <<lnattr, lres, data, up, ret, pin, cpool, pres, dsrc, cls, cres>>

\* buff = buffer(str(s))
TypeseqStart ==
    /\ dpc = "start"
    /\ IF \E i \in 1..Len(dsrc) : dsrc[i] >= 128
       THEN dpc' = "UnicodeEncodeError" /\ UNCHANGED dbuff
       ELSE dpc' = "run" /\ dbuff' = dsrc
    /\ UNCHANGED dtoks
    /\ DescFrame

\* while buff: t, buff = _next_argsig(buff); yield t.  A run that ends
\* yields at most one token per character; one that does not is followed for
\* MaxToks tokens more.
TypeseqNext ==
    /\ dpc = "run"
    /\ dbuff # <<>>
    /\ Len(dtoks) < Len(dsrc) + MaxToks
    /\ LET r == next_argsig(dbuff)
       IN  IF r.exc # ""
           THEN dpc' = r.exc /\ UNCHANGED <<dbuff, dtoks>>
           ELSE dpc' = dpc /\ dbuff' = r.rest /\ dtoks' = Append(dtoks, r.tok)
    /\ DescFrame

\* The buffer is empty: tuple() returns the tokens.
TypeseqReturn ==
    /\ dpc = "run"
    /\ dbuff = <<>>
    /\ dpc' = "done"
    /\ UNCHANGED <<dbuff, dtoks>>
    /\ DescFrame

NextDesc == TypeseqStart \/ TypeseqNext \/ TypeseqReturn

SpecDesc == InitDesc /\ [][NextDesc]_vars

\* C10: the tokens _typeseq returns, concatenated in order, are the string
\* it was given; a valid descriptor is tokenized without an error, a method
\* descriptor into its parenthesized parameter list and its return type; the
\* example (Ljava/lang/String;[I)V gives (Ljava/lang/String;[I) and V, and
\* its parameter string gives Ljava/lang/String; and [I.
C10_RoundTrip ==
    /\ dpc = "done" => Concat(dtoks) = dsrc
    /\ dsrc \in ValidDescriptors => dpc \in {"start", "run", "done"}
    /\ (dpc = "done" /\ dsrc \in MethodDescriptors) =>
           /\ Len(dtoks) = 2
           /\ Inner(dtoks[1]) \in ParameterStrings
           /\ dtoks[2] \in ReturnDescriptors
    /\ (dpc = "done" /\ dsrc \in ParameterStrings) =>
           \A k \in 1..Len(dtoks) : dtoks[k] \in FieldDescriptors
    /\ (dpc = "done" /\ dsrc = ExampleDescriptor) =>
           dtoks = <<Str(<<"(">>) \o ExampleParameters \o Str(<<")">>), Str(<<"V">>)>>
    /\ (dpc = "done" /\ dsrc = ExampleParameters) =>
           dtoks = <<SubSeq(ExampleParameters, 1, 18), Str(<<"[", "I">>)>>

\* The example's parameter string, tokenized.
C10_Witness ==
    dpc = "done" /\ dsrc = ExampleParameters /\ Len(dtoks) = 2

\* The buffer the tokenizer is at begins with a type variable: "T", then
\* a ";" somewhere after it.
AtTypeVariable ==
    /\ dbuff # <<>>
    /\ dbuff[1] = Ord("T")
    /\ \E i \in 2..Len(dbuff) : dbuff[i] = Ord(";")

\* C14: at a buffer that begins with "T" the tokenizer returns the
\* substring up to and including the next ";" as one token and leaves the
\* cursor just after that ";"; it does not fail there.
C14_TypeVariableToken ==
    AtTypeVariable =>
        /\ dpc # "Unimplemented"
        /\ LET r == next_argsig(dbuff)
               i == FindPlus1(dbuff, Ord(";"), 1)
           IN  /\ r.exc = ""
               /\ r.tok = SubSeq(dbuff, 1, i)
               /\ r.rest = SubSeq(dbuff, i + 1, Len(dbuff))

(***************************************************************************)
(* SpecIO: a caller holding a data object calls is_class, is_class_file    *)
(* and unpack_class on it, reads the magic off it itself, and drives an    *)
(* Unpacker of its own over it (a caller that builds an Unpacker makes no  *)
(* other use of the data).  The contents are two well-formed class files,  *)
(* each with its magic spoilt, and every truncation of the larger.         *)
(***************************************************************************)
Utf8Entry(cs) == U8(CONST_Utf8) \o U16(Len(cs)) \o Str(cs)

\* class version 50.0, an empty constant pool, no members, no attributes
MinimalClass ==
    JAVA_CLASS_MAGIC \o U16(0) \o U16(50) \o U16(1)
    \o U16(33) \o U16(0) \o U16(0)
    \o U16(0) \o U16(0) \o U16(0) \o U16(0)

\* pool: 1 Utf8 "a", 2 Class -> 1, 3 Utf8 "I"; one interface, one field with
\* one attribute, no method, one class attribute
SmallClass ==
    JAVA_CLASS_MAGIC \o U16(3) \o U16(49) \o U16(4)
    \o Utf8Entry(<<"a">>) \o U8(CONST_Class) \o U16(1) \o Utf8Entry(<<"I">>)
    \o U16(33) \o U16(2) \o U16(0)
    \o U16(1) \o U16(2)
    \o U16(1) \o U16(2) \o U16(1) \o U16(3) \o U16(1) \o U16(1) \o U32(1) \o U8(7)
    \o U16(0)
    \o U16(1) \o U16(3) \o U32(1) \o U8(8)

ClassFiles == {MinimalClass, SmallClass}

Prefixes(bytes) == {SubSeq(bytes, 1, n) : n \in 0..Len(bytes)}

SpoiltMagics == {<<202, 254, 186, 191>>, <<0, 254, 186, 190>>}
WithMagic(m, bytes) == m \o Suffix(bytes, 4)

Whole == ClassFiles \cup {WithMagic(m, c) : m \in SpoiltMagics, c \in ClassFiles}
Contents == Whole \cup Prefixes(SmallClass)

DataObjects ==
    {[kind |-> k, s |-> StringIO(c), pre |-> <<>>] :
        k \in {"str", "stream", "file"}, c \in Contents}
    \cup {[kind |-> "buffer", s |-> StringIO(c), pre |-> <<>>] : c \in Whole}
    \cup {[kind |-> "reader", s |-> [StringIO(c) EXCEPT !.hasclose = FALSE], pre |-> <<>>] :
        c \in Whole}
    \cup {[kind |-> k, s |-> StringIO(<<>>), pre |-> <<>>] : k \in {"other", "missing"}}

InitIO ==
    /\ data \in DataObjects
    /\ up = NoUnpacker
    /\ ret = NoCall
    /\ IdleLine /\ IdlePool /\ IdleDesc /\ IdleClass

IOFrame == UNCHANGED <<lnattr, lres, pin, cpool, pres, dsrc, dbuff, dtoks, dpc, cls, cres>>

IsPath(d) == d.kind \in {"file", "missing"}
IsStream(d) == d.kind \in {"stream", "reader"}

\* The stream an Unpacker over d was left with is d's own when d is a stream.
After(d, s) == IF IsStream(d) THEN [d EXCEPT !.s = s] ELSE d

IsClass ==
    /\ ~IsPath(data)
    /\ ~up.made
    /\ LET r == is_class(data)
       IN  ret' = Called("is_class", 0, r) /\ data' = After(data, r.s)
    /\ UNCHANGED up
    /\ IOFrame

IsClassFile ==
    /\ IsPath(data)
    /\ ret' = Called("is_class_file", 0, is_class_file(data))
    /\ UNCHANGED <<data, up>>
    /\ IOFrame

\* The caller reads the four magic bytes off its stream itself.
ConsumeMagic ==
    /\ IsStream(data)
    /\ ~up.made
    /\ data.pre = <<>>
    /\ LET r == stream_read(data.s, 4)
       IN  /\ ret' = Called("stream.read", 4, r)
           /\ data' = IF r.exc # "" THEN data
                      ELSE [data EXCEPT !.s = r.s, !.pre = r.val]
    /\ UNCHANGED up
    /\ IOFrame

\* The magic a caller has from is_class(stream) having returned True, as a
\* str or as a tuple: if is_class(stream): unpack_class(stream, magic).
FoundMagic ==
    IF /\ IsStream(data) /\ data.pre = <<>>
       /\ ret.called /\ ret.op = "is_class" /\ ret.r.exc = ""
       /\ ret.r.val = TRUE
    THEN {PyStr(JAVA_CLASS_MAGIC_STR), PyTuple(JAVA_CLASS_MAGIC)}
    ELSE {}

\* unpack_class(data), or unpack_class(data, magic) with the bytes the
\* caller read, as a str or as a tuple, or with the magic is_class found.
UnpackClass ==
    /\ ~IsPath(data)
    /\ ~up.made
    /\ \E magic \in {PyNone} \cup FoundMagic \cup
                    (IF data.pre = <<>> THEN {}
                     ELSE {PyStr(data.pre), PyTuple(data.pre)}) :
           LET r == unpack_class(data, magic)
           IN  ret' = Called("unpack_class", magic, r) /\ data' = After(data, r.s)
    /\ UNCHANGED up
    /\ IOFrame

\* up = Unpacker(data)
NewUnpacker ==
    /\ ~IsPath(data)
    /\ ~up.made
    /\ LET r == Unpacker_init(data)
       IN  /\ ret' = Called("Unpacker", 0, r)
           /\ up' = IF r.exc # "" THEN up
                    ELSE [made |-> TRUE, open |-> TRUE, own |-> ~IsStream(data),
                          s |-> IF IsStream(data) THEN StringIO(<<>>) ELSE r.s]
    /\ UNCHANGED data
    /\ IOFrame

\* self.stream of the caller's Unpacker
UpStream == IF up.own THEN up.s ELSE data.s

SetUpStream(s) ==
    IF up.own THEN up' = [up EXCEPT !.s = s] /\ UNCHANGED data
    ELSE data' = [data EXCEPT !.s = s] /\ UNCHANGED up

\* A method called on the Unpacker after close(): self.stream is None.
OnUnpacker(op, arg, r) ==
    IF up.open
    THEN ret' = Called(op, arg, r) /\ SetUpStream(r.s)
    ELSE ret' = Called(op, arg, Raise("AttributeError", UpStream))
         /\ UNCHANGED <<data, up>>

CallerFormats == {<<"B">>, <<"H">>, <<"H", "H">>, <<"B", "B", "B", "B">>}

\* up.unpack(fmt)
UpUnpack ==
    /\ up.made
    /\ \E fmt \in CallerFormats :
           OnUnpacker("unpack", fmt, Unpacker_unpack(UpStream, fmt))
    /\ IOFrame

\* up.read(n)
UpRead ==
    /\ up.made
    /\ \E n \in 0..MaxRead :
           OnUnpacker("read", n, Unpacker_read(UpStream, n))
    /\ IOFrame

\* up.close()
UpClose ==
    /\ up.made
    /\ ret' = Called("close", 0, Return(0, Unpacker_close(UpStream)))
    /\ IF up.open
       THEN IF up.own
            THEN up' = [up EXCEPT !.s = Unpacker_close(up.s), !.open = FALSE]
                 /\ UNCHANGED data
            ELSE up' = [up EXCEPT !.open = FALSE]
                 /\ data' = [data EXCEPT !.s = Unpacker_close(data.s)]
       ELSE UNCHANGED <<data, up>>
    /\ IOFrame

NextIO ==
    \/ IsClass \/ IsClassFile \/ ConsumeMagic \/ UnpackClass
    \/ NewUnpacker \/ UpUnpack \/ UpRead \/ UpClose

SpecIO == InitIO /\ [][NextIO]_vars

(***************************************************************************)
(* Properties of is_class, is_class_file, unpack_class and the Unpacker.   *)
(***************************************************************************)
HasMagic(bytes) == Len(bytes) >= 4 /\ SubSeq(bytes, 1, 4) = JAVA_CLASS_MAGIC

\* d is something an Unpacker can read from.
Readable(d) ==
    \/ d.kind \in {"str", "buffer"}
    \/ IsStream(d) /\ ~d.s.closed

\* The step is a call of op.
Calls(op) == ret'.called /\ ret'.op = op

\* C2: is_class_file(path) returns true exactly when the file's first four
\* bytes are CA FE BA BE, and false for every other readable file.
C2_IsClassFileChecksMagic ==
    (ret.called /\ ret.op = "is_class_file" /\ data.kind = "file") =>
        /\ ret.r.exc = ""
        /\ ret.r.val = HasMagic(data.s.buf)

\* The rest of a well-formed class file, the magic read off.
AfterMagic == {Suffix(c, 4) : c \in ClassFiles}

\* C3: given the magic the caller consumed, as a 4-character str or as a
\* 4-tuple, unpack_class does not fail the magic check, and decodes the rest
\* of the stream from the version field on, to its end, into a class.
C3_PreconsumedMagic ==
    [][(/\ Calls("unpack_class")
        /\ ret'.arg.ty \in {"str", "tuple"}
        /\ ret'.arg.v = JAVA_CLASS_MAGIC
        /\ Readable(data)
        /\ data.s.buf \in AfterMagic) =>
           /\ ret'.r.exc = ""
           /\ ret'.r.val.magic = JAVA_CLASS_MAGIC
           /\ ret'.r.val.version = <<BigEndian(SubSeq(data.s.buf, 3, 4)),
                                     BigEndian(SubSeq(data.s.buf, 1, 2))>>
           /\ ret'.r.s.buf = <<>>]_vars

\* The bytes a call of the caller's Unpacker asks for.
Wanted(op, arg) == IF op = "unpack" THEN StructSize(arg) ELSE arg

\* C4: unpack(fmt) or read(n) on a stream holding fewer bytes than asked for
\* fails with an UnpackException, and with no other error.
C4_ShortReadIsUnpackException ==
    [][(/\ Calls("unpack") \/ Calls("read")
        /\ up.made /\ up.open
        /\ ~UpStream.closed
        /\ Len(UpStream.buf) < Wanted(ret'.op, ret'.arg)) =>
           ret'.r.exc = "UnpackException"]_vars

\* C5: unpack_class on data whose first four bytes are there but are not the
\* magic fails with an UnpackException, no byte after the four read.
C5_BadMagicIsUnpackException ==
    [][(/\ Calls("unpack_class")
        /\ ret'.arg = PyNone
        /\ Readable(data)
        /\ Len(data.s.buf) >= 4
        /\ ~HasMagic(data.s.buf)) =>
           /\ ret'.r.exc = "UnpackException"
           /\ ret'.r.s.buf = Suffix(data.s.buf, 4)]_vars

\* C6: is_class(data) never raises; it returns true when data supplies four
\* bytes that are the class magic and false otherwise, whatever data is.
C6_IsClassNeverRaises ==
    [][Calls("is_class") =>
           /\ ret'.r.exc = ""
           /\ ret'.r.val = (Readable(data) /\ HasMagic(data.s.buf))]_vars

\* is_class has returned False for an argument no Unpacker accepts.
C6_Witness ==
    /\ ret.called /\ ret.op = "is_class"
    /\ data.kind = "other"
    /\ ret.r.exc = "" /\ ret.r.val = FALSE

\* The truth value of m.is_bridge, a bound method object that is not
\* called.
is_bridge_method_object == TRUE

\* m.get_name() == name, for a name given as an ASCII str
NameIs(n, name) == IsText(n) /\ n.v = name

\* JavaClassInfo.get_method(name, arg_types) over get_methods_by_name(name):
\* val is <<m>> for the method m returned and <<>> for None.
RECURSIVE get_method(_, _, _, _)
get_method(consts, methods, name, arg_types) ==
    IF methods = <<>> THEN Value(<<>>)
    ELSE Bind(get_name(consts, Head(methods)), LAMBDA n :
         IF NameIs(n.val, name) /\ ~is_bridge_method_object
         THEN Bind(get_arg_type_descriptors(consts, Head(methods)), LAMBDA a :
                   IF a.val = arg_types THEN Value(<<Head(methods)>>)
                   ELSE get_method(consts, Tail(methods), name, arg_types))
         ELSE get_method(consts, Tail(methods), name, arg_types))


\* JavaAttributes.get_attribute(name): self.get(name, None), for a name
\* given as an ASCII str; None is Absent.
RECURSIVE get_attribute(_, _)
get_attribute(attribs, name) ==
    IF attribs = <<>> THEN Absent
    ELSE IF NameIs(Head(attribs)[1], name) THEN Present(Head(attribs)[2])
    ELSE get_attribute(Tail(attribs), name)

\* "%s.%s%s" % (enc_class, enc_meth, enc_type)
enclosing_text(enc_class, pair) ==
    Bind(Unpack2(pair), LAMBDA p :
    Bind(Format(enc_class), LAMBDA c :
    Bind(Format(p.val[1]), LAMBDA m :
    Bind(Format(p.val[2]), LAMBDA t :
         Value(PyUnicode(c.val \o Str(<<".">>) \o m.val \o t.val))))))

\* The part after the with block, were the method index not looked at.
enclosing_of_class_only(consts, ci, mi) ==
    IF ci # 0 THEN deref_const(consts, ci) ELSE Value(PyNone)

\* The part of get_enclosingmethod after its with block.
enclosing_of(consts, ci, mi) ==
    IF ci # 0 /\ mi # 0
    THEN Bind(deref_const(consts, ci), LAMBDA enc_class :
         Bind(deref_const(consts, mi), LAMBDA pair :
              enclosing_text(enc_class.val, pair.val)))
    ELSE IF ci # 0 THEN deref_const(consts, ci)
    ELSE Value(PyNone)

\* JavaClassInfo.get_enclosingmethod(): s is the stream of the Unpacker it
\* made over the payload, a stream never opened when there is no payload.
get_enclosingmethod(info) ==
    IF ~get_attribute(info.attribs, Str(<<"E", "n", "c", "l", "o", "s", "i", "n", "g",
                                        "M", "e", "t", "h", "o", "d">>)).present
    THEN Return(PyNone, StringIO(<<>>))
    ELSE Bind(Unpacker_exit(
                  Unpacker_unpack(
                      StringIO(get_attribute(info.attribs,
                          Str(<<"E", "n", "c", "l", "o", "s", "i", "n", "g",
                                "M", "e", "t", "h", "o", "d">>)).buf),
                      <<"H", "H">>)),
              LAMBDA u : At(enclosing_of(info.consts, u.val[1], u.val[2]), u.s))

\* JavaMemberInfo.is_synthetic(): the flag, or bool() of the payload of a
\* Synthetic attribute, which is false for None and for an empty payload.
is_synthetic(m) ==
    \/ HasFlag(m.access_flags, ACC_SYNTHETIC)
    \/ get_attribute(m.attribs, Str(<<"S", "y", "n", "t", "h", "e", "t", "i", "c">>)).buf # <<>>

\* if cond: yield keyword
Yield(cond, keyword) == IF cond THEN <<keyword>> ELSE <<>>

\* The generator with private tested before public.
pretty_access_flags_swapped(m, all) ==
    Yield(HasFlag(m.access_flags, ACC_PRIVATE), "private")
    \o Yield(HasFlag(m.access_flags, ACC_PUBLIC), "public")
    \o Yield(HasFlag(m.access_flags, ACC_PROTECTED), "protected")
    \o Yield(HasFlag(m.access_flags, ACC_STATIC), "static")
    \o Yield(HasFlag(m.access_flags, ACC_FINAL), "final")
    \o Yield(HasFlag(m.access_flags, ACC_STRICT), "strict")
    \o Yield(HasFlag(m.access_flags, ACC_NATIVE), "native")
    \o Yield(HasFlag(m.access_flags, ACC_ABSTRACT), "abstract")
    \o Yield(HasFlag(m.access_flags, ACC_ENUM), "enum")
    \o Yield(HasFlag(m.access_flags, ACC_MODULE), "module")
    \o Yield(all /\ is_synthetic(m), "synthetic")
    \o (IF m.is_method
        THEN Yield(HasFlag(m.access_flags, ACC_SYNCHRONIZED), "synchronized")
             \o Yield(all /\ HasFlag(m.access_flags, ACC_BRIDGE), "bridge")
             \o Yield(all /\ HasFlag(m.access_flags, ACC_VARARGS), "varargs")
        ELSE Yield(HasFlag(m.access_flags, ACC_TRANSIENT), "transient")
             \o Yield(HasFlag(m.access_flags, ACC_VOLATILE), "volatile"))

\* JavaMemberInfo.pretty_access_flags(all), the generator run to its end
pretty_access_flags(m, all) ==
    Yield(HasFlag(m.access_flags, ACC_PUBLIC), "public")
    \o Yield(HasFlag(m.access_flags, ACC_PRIVATE), "private")
    \o Yield(HasFlag(m.access_flags, ACC_PROTECTED), "protected")
    \o Yield(HasFlag(m.access_flags, ACC_STATIC), "static")
    \o Yield(HasFlag(m.access_flags, ACC_FINAL), "final")
    \o Yield(HasFlag(m.access_flags, ACC_STRICT), "strict")
    \o Yield(HasFlag(m.access_flags, ACC_NATIVE), "native")
    \o Yield(HasFlag(m.access_flags, ACC_ABSTRACT), "abstract")
    \o Yield(HasFlag(m.access_flags, ACC_ENUM), "enum")
    \o Yield(HasFlag(m.access_flags, ACC_MODULE), "module")
    \o Yield(all /\ is_synthetic(m), "synthetic")
    \o (IF m.is_method
        THEN Yield(HasFlag(m.access_flags, ACC_SYNCHRONIZED), "synchronized")
             \o Yield(all /\ HasFlag(m.access_flags, ACC_BRIDGE), "bridge")
             \o Yield(all /\ HasFlag(m.access_flags, ACC_VARARGS), "varargs")
        ELSE Yield(HasFlag(m.access_flags, ACC_TRANSIENT), "transient")
             \o Yield(HasFlag(m.access_flags, ACC_VOLATILE), "volatile"))

(***************************************************************************)
(* SpecClass: a JavaClassInfo unpacked from a class file, and calls on it  *)
(* and on its members.  The class files are built from their parts; each   *)
(* family below varies the parts one group of operations reads.            *)
(***************************************************************************)
\* An attribute table of entries <<name index, payload>>.
AttribsBytes(attrs) ==
    U16(Len(attrs))
    \o Concat([k \in 1..Len(attrs) |->
                  U16(attrs[k][1]) \o U32(Len(attrs[k][2])) \o attrs[k][2]])

\* A member <<access_flags, name index, descriptor index, attributes>>.
MemberBytes(m) == U16(m[1]) \o U16(m[2]) \o U16(m[3]) \o AttribsBytes(m[4])

MembersBytes(ms) == U16(Len(ms)) \o Concat([k \in 1..Len(ms) |-> MemberBytes(ms[k])])

\* A class file of version 50.0 with no interfaces.
ClassBytes(entries, this_ref, fields, methods, attrs) ==
    JAVA_CLASS_MAGIC \o U16(0) \o U16(50)
    \o PoolBytes(SlotsOf(entries), entries)
    \o U16(33) \o U16(this_ref) \o U16(0)
    \o U16(0)
    \o MembersBytes(fields) \o MembersBytes(methods) \o AttribsBytes(attrs)

Utf8(cs) == <<CONST_Utf8, Str(cs)>>

\* The unicode representations an interpreter is built with.
Builds == [width : {2, 4}, little : BOOLEAN]
NarrowLittle == [width |-> 2, little |-> TRUE]

\* The class as unpack_class returns it.
Unpacked_class(bytes) == unpack_class([kind |-> "str", s |-> StringIO(bytes), pre |-> <<>>], PyNone)

NewClass(info, build) ==
    [info |-> info, build |-> build,
     provides |-> NoSet, provides_private |-> NoSet, requires |-> NoSet]

\* Class a/B with field f:I and method m()V, and in its pool a Fieldref to
\* its own field, a Class entry of some name and a Methodref to m()V on that
\* entry or on a/B itself.
ReferredNames ==
    {<<"c", "/", "D">>, <<"a", "/", "B">>, <<"[", "L", "c", "/", "D", ";">>,
     <<"[", "[", "L", "c", "/", "D", ";">>, <<"[", "I">>, <<"[", "[", "I">>,
     <<"[", "L", "a", "/", "B", ";">>}

RequiresPool(name, on) ==
    << Utf8(<<"a", "/", "B">>), <<CONST_Class, 1>>, Utf8(<<"f">>), Utf8(<<"I">>),
       Utf8(<<"m">>), Utf8(<<"(", ")", "V">>), <<CONST_NameAndType, <<3, 4>>>>,
       <<CONST_Fieldref, <<2, 7>>>>, Utf8(name), <<CONST_Class, 9>>,
       <<CONST_NameAndType, <<5, 6>>>>, <<CONST_Methodref, <<on, 11>>>> >>

RequiresFiles ==
    {ClassBytes(RequiresPool(name, on), 2,
                <<<<facc, 3, 4, <<>>>>>>, <<<<ACC_PUBLIC, 5, 6, <<>>>>>>, <<>>) :
        name \in ReferredNames, on \in {2, 10}, facc \in {ACC_PUBLIC, ACC_PRIVATE}}

ClassStates ==
    {NewClass(Unpacked_class(b).val, build) : b \in RequiresFiles, build \in Builds}

InitClass ==
    /\ cls \in ClassStates
    /\ cres = NoClassCall
    /\ IdleLine /\ IdleIO /\ IdlePool /\ IdleDesc

ClassFrame == UNCHANGED <<lnattr, lres, data, up, ret, pin, cpool, pres,
                          dsrc, dbuff, dtoks, dpc>>

\* The ignored patterns a caller passes.
IgnoredArgs ==
    {<<>>, <<Str(<<"*">>)>>, <<Str(<<"c", ".", "*">>)>>,
     <<Str(<<"a", ".", "B">>)>>}

GetProvides ==
    \E ignored \in IgnoredArgs, private \in BOOLEAN :
        LET r == get_provides(cls, ignored, private)
        IN  /\ cres' = [called |-> TRUE, op |-> "get_provides",
                        arg |-> <<ignored, private>>, exc |-> r.exc, val |-> r.val]
            /\ cls' = r.c
            /\ ClassFrame

GetRequires ==
    \E ignored \in IgnoredArgs :
        LET r == get_requires(cls, ignored)
        IN  /\ cres' = [called |-> TRUE, op |-> "get_requires",
                        arg |-> <<ignored>>, exc |-> r.exc, val |-> r.val]
            /\ cls' = r.c
            /\ ClassFrame

NextClass == GetProvides \/ GetRequires

SpecClass == InitClass /\ [][NextClass]_vars

(***************************************************************************)
(* Properties of SpecClass                                                 *)
(***************************************************************************)
ClassCalls(op) == cres.called /\ cres.op = op
ClassReturned(op) == ClassCalls(op) /\ cres.exc = ""

\* The two calls made now one after the other, r then p or p then r.
RequiresThenProvides(ig1, ig2) ==
    LET r == get_requires(cls, ig1)
        p == get_provides(r.c, ig2, TRUE)
    IN  (r.exc = "" /\ p.exc = "") => r.val \cap p.val = {}

ProvidesThenRequires(ig1, ig2) ==
    LET p == get_provides(cls, ig2, TRUE)
        r == get_requires(p.c, ig1)
    IN  (r.exc = "" /\ p.exc = "") => r.val \cap p.val = {}

\* C11: whatever calls were made before (so whatever sets are cached),
\* the set get_requires returns and the set get_provides(private=True)
\* returns have no element in common, for every ignored argument of
\* either call and in either order of the two calls.
C11_RequiresDisjointFromProvides ==
    \A ig1, ig2 \in IgnoredArgs :
        RequiresThenProvides(ig1, ig2) /\ ProvidesThenRequires(ig1, ig2)

\* get_requires has returned names for a class whose pool refers to its own
\* class, field and method, and the private provides are cached.
C11_Witness ==
    /\ ClassReturned("get_requires")
    /\ cres.val # {}
    /\ cls.provides_private.present
    /\ Len(cls.info.consts) = 13
    /\ cls.info.consts[13] = <<CONST_Methodref, <<2, 11>>>>
    /\ cls.provides_private.set \cap cres.val = {}

\* The name the Class entry at index 9 of a RequiresPool class refers to.
ReferredName == cls.info.consts[10][2]

RECURSIVE ElementType(_)
ElementType(d) == IF d # <<>> /\ d[1] = Ord("[") THEN ElementType(Tail(d)) ELSE d

\* The class name an array descriptor's element type stands for, <<>> for
\* a primitive element.
ElementClass(d) ==
    LET e == ElementType(d)
    IN  IF Len(e) > 2 /\ e[1] = Ord("L")
        THEN Replace(SubSeq(e, 2, Len(e) - 1), Ord("/"), Ord("."))
        ELSE <<>>

\* C12: get_requires() on a class whose pool has a Class entry (and a
\* Methodref on it) with an array name returns, and returns the element
\* class name when the element is an object type the class does not
\* provide, and nothing when the element is a primitive or the class itself.
C12_ArrayDimensionsPeeled ==
    (ClassCalls("get_requires") /\ cres.arg = <<<<>>>>
        /\ ReferredName[1] = Ord("["))
    => /\ cres.exc = ""
       /\ cres.val = {ElementClass(ReferredName)} \ {<<>>, Str(<<"a", ".", "B">>)}

(***************************************************************************)
(* SpecMember: calls on the members of an unpacked class.                  *)
(***************************************************************************)
\* The pool of the classes whose methods vary: names m and n, four method
\* descriptors and a field descriptor.
MemberPool ==
    << Utf8(<<"a", "/", "B">>), <<CONST_Class, 1>>, Utf8(<<"m">>), Utf8(<<"n">>),
       Utf8(<<"(", ")", "V">>), Utf8(<<"(", "I", ")", "V">>),
       Utf8(<<"(", "I", ")", "I">>), Utf8(<<"(", ")", "I">>),
       Utf8(<<"(", "I", "[", "I", ")", "V">>), Utf8(<<"I">>),
       Utf8(<<"S", "y", "n", "t", "h", "e", "t", "i", "c">>) >>

MethodChoices ==
    {<<acc, name, desc, <<>>>> :
        acc \in {ACC_PUBLIC, ACC_PUBLIC + ACC_BRIDGE}, name \in {3, 4}, desc \in 5..9}

\* Classes with the field m:I and two methods.
MethodFiles ==
    {ClassBytes(MemberPool, 2, <<<<ACC_PUBLIC, 3, 10, <<>>>>>>, <<m1, m2>>, <<>>) :
        m1 \in MethodChoices, m2 \in MethodChoices}

\* Access flags with at most MaxFlagBits of the sixteen bits set.
MaxFlagBits == 2
FlagBits == {1, 2, 4, 8, 16, 32, 64, 128, 256, 512, 1024, 2048, 4096, 8192, 16384, 32768}
RECURSIVE SumOf(_)
SumOf(S) == IF S = {} THEN 0 ELSE LET x == CHOOSE x \in S : TRUE IN x + SumOf(S \ {x})
FlagSets == {SumOf(S) : S \in {T \in SUBSET FlagBits : Cardinality(T) <= MaxFlagBits}}

\* No Synthetic attribute, one as compilers write it (no payload), and one
\* with a payload.
SyntheticTables == {<<>>, <<<<11, <<>>>>>>, <<<<11, <<1>>>>>>}

\* Classes with a field and a method of the same flags and attributes.
FlagFiles ==
    {ClassBytes(MemberPool, 2, <<<<acc, 3, 10, t>>>>, <<<<acc, 3, 5, t>>>>, <<>>) :
        acc \in FlagSets, t \in SyntheticTables}

MemberStates ==
    {NewClass(Unpacked_class(b).val, NarrowLittle) : b \in MethodFiles \cup FlagFiles}

InitMember ==
    /\ cls \in MemberStates
    /\ cres = NoClassCall
    /\ IdleLine /\ IdleIO /\ IdlePool /\ IdleDesc

MethodNames == {Str(<<"m">>), Str(<<"n">>), Str(<<"x">>)}
ArgTypes == {<<>>, <<Str(<<"I">>)>>, <<Str(<<"I">>), Str(<<"[", "I">>)>>}

GetMethod ==
    \E name \in MethodNames, arg_types \in ArgTypes :
        LET r == get_method(cls.info.consts, cls.info.methods, name, arg_types)
        IN  /\ cres' = [called |-> TRUE, op |-> "get_method",
                        arg |-> <<name, arg_types>>, exc |-> r.exc, val |-> r.val]
            /\ UNCHANGED cls
            /\ ClassFrame

\* The members of the class, fields first.
Members == cls.info.fields \o cls.info.methods

GetIdentifier ==
    \E k \in 1..Len(Members) :
        LET r == get_identifier(cls.info.consts, Members[k])
        IN  /\ cres' = [called |-> TRUE, op |-> "get_identifier",
                        arg |-> <<k>>, exc |-> r.exc, val |-> r.val]
            /\ UNCHANGED cls
            /\ ClassFrame

PrettyAccessFlags ==
    \E k \in 1..Len(Members), all \in BOOLEAN :
        /\ cres' = [called |-> TRUE, op |-> "pretty_access_flags",
                    arg |-> <<k, all>>, exc |-> "",
                    val |-> pretty_access_flags(Members[k], all)]
        /\ UNCHANGED cls
        /\ ClassFrame

NextMember == GetMethod \/ GetIdentifier \/ PrettyAccessFlags

SpecMember == InitMember /\ [][NextMember]_vars

(***************************************************************************)
(* Properties of SpecMember                                                *)
(***************************************************************************)
\* The methods of the class that are not bridges and have the name and the
\* argument type descriptors of the last call of get_method.
Wanted_methods ==
    {k \in 1..Len(cls.info.methods) :
        LET m == cls.info.methods[k]
        IN  /\ ~HasFlag(m.access_flags, ACC_BRIDGE)
            /\ NameIs(get_name(cls.info.consts, m).val, cres.arg[1])
            /\ get_arg_type_descriptors(cls.info.consts, m).val = cres.arg[2]}

\* C13: get_method(n, a) returns a method that is not a bridge and has name
\* n and argument descriptors a when the class has one, and None only when
\* it has none.
C13_GetMethodFindsNonBridge ==
    ClassCalls("get_method") =>
        /\ cres.exc = ""
        /\ Wanted_methods # {} =>
               /\ cres.val # <<>>
               /\ \E k \in Wanted_methods : cres.val[1] = cls.info.methods[k]
        /\ cres.val = <<>> => Wanted_methods = {}
        /\ cres.val # <<>> => ~HasFlag(cres.val[1].access_flags, ACC_BRIDGE)

\* The strings a member's name and descriptor indexes refer to.
NameOf(m) == cls.info.consts[m.name_ref + 1][2]
DescriptorOf(m) == cls.info.consts[m.descriptor_ref + 1][2]

\* The parameter part of a method descriptor, without its parentheses, and
\* what follows it.
ParametersOf(m) == SubSeq(DescriptorOf(m), 2, FindPlus1(DescriptorOf(m), Ord(")"), 1) - 1)
ReturnOf(m) ==
    SubSeq(DescriptorOf(m), FindPlus1(DescriptorOf(m), Ord(")"), 1) + 1,
           Len(DescriptorOf(m)))

\* name(argDescriptors)
NameWithArgs(m) ==
    NameOf(m) \o Str(<<"(">>) \o Join(Str(<<",">>), typeseq(ParametersOf(m)).val)
    \o Str(<<")">>)

IsSuffix(t, u) == Len(t) <= Len(u) /\ SubSeq(u, Len(u) - Len(t) + 1, Len(u)) = t

IdentifierOf(m) == get_identifier(cls.info.consts, m).val.v

\* C15: get_identifier() is the bare name for a field, name(argDescriptors)
\* for a method that is not a bridge, and for a bridge that string followed
\* by the full descriptor; so within a class two bridges with the same name
\* and argument descriptors and different return types have different
\* identifiers, and no bridge has the identifier of a method that is not one.
C15_Identifier ==
    /\ ClassCalls("get_identifier") =>
           LET m == Members[cres.arg[1]]
           IN  /\ cres.exc = ""
               /\ ~m.is_method => cres.val.v = NameOf(m)
               /\ (m.is_method /\ ~HasFlag(m.access_flags, ACC_BRIDGE)) =>
                      cres.val.v = NameWithArgs(m)
               /\ (m.is_method /\ HasFlag(m.access_flags, ACC_BRIDGE)) =>
                      /\ IsSuffix(DescriptorOf(m), cres.val.v)
                      /\ SubSeq(cres.val.v, 1, Len(NameWithArgs(m))) = NameWithArgs(m)
                      /\ Len(cres.val.v) = Len(NameWithArgs(m)) + 1 + Len(DescriptorOf(m))
    /\ \A k1, k2 \in 1..Len(cls.info.methods) :
               LET m1 == cls.info.methods[k1]
                   m2 == cls.info.methods[k2]
               IN  /\ (/\ HasFlag(m1.access_flags, ACC_BRIDGE)
                       /\ HasFlag(m2.access_flags, ACC_BRIDGE)
                       /\ NameOf(m1) = NameOf(m2)
                       /\ ParametersOf(m1) = ParametersOf(m2)
                       /\ ReturnOf(m1) # ReturnOf(m2))
                      => IdentifierOf(m1) # IdentifierOf(m2)
                   /\ (/\ HasFlag(m1.access_flags, ACC_BRIDGE)
                       /\ ~HasFlag(m2.access_flags, ACC_BRIDGE))
                      => IdentifierOf(m1) # IdentifierOf(m2)

\* get_identifier was called on a bridge method of a class whose other
\* method is a bridge of the same name and arguments and another return
\* type.
C15_Witness ==
    /\ ClassReturned("get_identifier")
    /\ cres.arg = <<2>>
    /\ HasFlag(cls.info.methods[1].access_flags, ACC_BRIDGE)
    /\ HasFlag(cls.info.methods[2].access_flags, ACC_BRIDGE)
    /\ NameOf(cls.info.methods[1]) = NameOf(cls.info.methods[2])
    /\ ParametersOf(cls.info.methods[1]) = Str(<<"I">>)
    /\ ParametersOf(cls.info.methods[2]) = Str(<<"I">>)
    /\ ReturnOf(cls.info.methods[1]) # ReturnOf(cls.info.methods[2])
    /\ cres.val.v = IdentifierOf(cls.info.methods[1])

(***************************************************************************)
(* SpecAttr: the attribute table of an unpacked class.  A class state      *)
(* here also keeps the table its file was written with.                    *)
(***************************************************************************)
MaxAttrs == 2

AttrPool ==
    << Utf8(<<"a", "/", "B">>), <<CONST_Class, 1>>, Utf8(<<"m">>),
       Utf8(<<"(", ")", "V">>), <<CONST_NameAndType, <<3, 4>>>>,
       Utf8(<<"E", "n", "c", "l", "o", "s", "i", "n", "g", "M", "e", "t", "h", "o", "d">>),
       Utf8(<<"F", "o", "o">>), Utf8(<<"B", "a", "r">>) >>

\* Payloads: a class index and a method index.
AttrPayloads == {U16(ci) \o U16(mi) : ci \in {0, 2}, mi \in {0, 5}}

AttrTables == SeqsUpTo({<<name, payload>> : name \in 6..8, payload \in AttrPayloads}, MaxAttrs)

AttrStates ==
    {[info |-> Unpacked_class(ClassBytes(AttrPool, 2, <<>>, <<>>, table)).val,
      build |-> NarrowLittle, provides |-> NoSet, provides_private |-> NoSet,
      requires |-> NoSet, table |-> table] : table \in AttrTables}

InitAttr ==
    /\ cls \in AttrStates
    /\ cres = NoClassCall
    /\ IdleLine /\ IdleIO /\ IdlePool /\ IdleDesc

AttrNames ==
    {Str(<<"E", "n", "c", "l", "o", "s", "i", "n", "g", "M", "e", "t", "h", "o", "d">>),
     Str(<<"F", "o", "o">>), Str(<<"B", "a", "r">>), Str(<<"B", "a", "z">>)}

GetAttribute ==
    \E name \in AttrNames :
        /\ cres' = [called |-> TRUE, op |-> "get_attribute", arg |-> <<name>>,
                    exc |-> "", val |-> get_attribute(cls.info.attribs, name)]
        /\ UNCHANGED cls
        /\ ClassFrame

GetEnclosingMethod ==
    LET r == get_enclosingmethod(cls.info)
    IN  /\ cres' = [called |-> TRUE, op |-> "get_enclosingmethod", arg |-> <<>>,
                    exc |-> r.exc, val |-> r.val, s |-> r.s]
        /\ UNCHANGED cls
        /\ ClassFrame

NextAttr == GetAttribute \/ GetEnclosingMethod

SpecAttr == InitAttr /\ [][NextAttr]_vars

(***************************************************************************)
(* Properties of SpecAttr                                                  *)
(***************************************************************************)
\* The text a Utf8 index of the pool refers to.
TextAt(i) == cls.info.consts[i + 1][2]

\* The entries of the file's table with a name, by position.
EntriesNamed(name) == {k \in 1..Len(cls.table) : TextAt(cls.table[k][1]) = name}

\* The payload of the last of them, None when there is none.
LastNamed(name) ==
    IF EntriesNamed(name) = {} THEN Absent
    ELSE Present(cls.table[CHOOSE k \in EntriesNamed(name) :
                               \A j \in EntriesNamed(name) : j <= k][2])

\* C16: get_attribute(name) is the payload of the last entry of the file's
\* table with that name and None when no entry has it; every entry of the
\* table, whatever its name, is stored under its name.
C16_LastEntryWins ==
    /\ ClassCalls("get_attribute") =>
           /\ cres.exc = ""
           /\ cres.val = LastNamed(cres.arg[1])
    /\ \A k \in 1..Len(cls.table) :
           \E j \in 1..Len(cls.info.attribs) :
               NameIs(cls.info.attribs[j][1], TextAt(cls.table[k][1]))

\* get_attribute answered for a name two entries have, with two payloads.
C16_Witness ==
    /\ ClassReturned("get_attribute")
    /\ cres.arg = <<Str(<<"F", "o", "o">>)>>
    /\ EntriesNamed(Str(<<"F", "o", "o">>)) = {1, 2}
    /\ cls.table[1][2] # cls.table[2][2]
    /\ cres.val = Present(cls.table[2][2])

\* The two indexes of the EnclosingMethod payload the class kept.
EnclosingIndexes ==
    LET b == LastNamed(Str(<<"E", "n", "c", "l", "o", "s", "i", "n", "g",
                             "M", "e", "t", "h", "o", "d">>)).buf
    IN  <<b[1] * 256 + b[2], b[3] * 256 + b[4]>>

HasEnclosingMethod ==
    LastNamed(Str(<<"E", "n", "c", "l", "o", "s", "i", "n", "g",
                    "M", "e", "t", "h", "o", "d">>)).present

\* The name of the class a Class index refers to.
ClassNameAt(ci) == TextAt(cls.info.consts[ci + 1][2])

\* The name and the descriptor a NameAndType index refers to, one after
\* the other.
SignatureAt(mi) ==
    TextAt(cls.info.consts[mi + 1][2][1]) \o TextAt(cls.info.consts[mi + 1][2][2])

\* C19: get_enclosingmethod() is None without the attribute or with class
\* index 0; with a class index and method index 0 it is the class name,
\* with no error; with both it is the class name, a dot, and the method
\* name followed by its descriptor.
C19_EnclosingMethod ==
    ClassCalls("get_enclosingmethod") =>
        /\ cres.exc = ""
        /\ (~HasEnclosingMethod \/ EnclosingIndexes[1] = 0) => cres.val = PyNone
        /\ (HasEnclosingMethod /\ EnclosingIndexes[1] # 0 /\ EnclosingIndexes[2] = 0)
               => cres.val = PyUnicode(ClassNameAt(EnclosingIndexes[1]))
        /\ (HasEnclosingMethod /\ EnclosingIndexes[1] # 0 /\ EnclosingIndexes[2] # 0)
               => cres.val = PyUnicode(ClassNameAt(EnclosingIndexes[1]) \o Str(<<".">>)
                                       \o SignatureAt(EnclosingIndexes[2]))

\* get_enclosingmethod answered for a payload with both indexes.
C19_Witness ==
    /\ ClassReturned("get_enclosingmethod")
    /\ HasEnclosingMethod
    /\ EnclosingIndexes = <<2, 5>>
    /\ cres.val = PyUnicode(Str(<<"a", "/", "B", ".", "m", "(", ")", "V">>))

\* get_enclosingmethod answered for a payload with method index 0.
C19_WitnessMethodZero ==
    /\ ClassReturned("get_enclosingmethod")
    /\ HasEnclosingMethod
    /\ EnclosingIndexes = <<2, 0>>
    /\ cres.val = PyUnicode(Str(<<"a", "/", "B">>))

\* The keywords in their fixed order, and the flag bit of each.
KeywordOrder ==
    <<"public", "private", "protected", "static", "final", "strict", "native",
      "abstract", "enum", "module", "synthetic", "synchronized", "bridge",
      "varargs", "transient", "volatile">>

KeywordBits ==
    <<ACC_PUBLIC, ACC_PRIVATE, ACC_PROTECTED, ACC_STATIC, ACC_FINAL, ACC_STRICT,
      ACC_NATIVE, ACC_ABSTRACT, ACC_ENUM, ACC_MODULE, ACC_SYNTHETIC,
      ACC_SYNCHRONIZED, ACC_BRIDGE, ACC_VARARGS, ACC_TRANSIENT, ACC_VOLATILE>>

Position(keyword) == CHOOSE i \in 1..Len(KeywordOrder) : KeywordOrder[i] = keyword

\* What the claim says of every keyword but for the flag bit of synthetic.
KeywordsInOrder(m, all, kws) ==
    /\ \A i \in 1..Len(kws) : kws[i] \in {KeywordOrder[p] : p \in 1..Len(KeywordOrder)}
    /\ \A i, j \in 1..Len(kws) : i < j => Position(kws[i]) < Position(kws[j])
    /\ \A i \in 1..Len(kws) :
           /\ kws[i] # "synthetic" => HasFlag(m.access_flags, KeywordBits[Position(kws[i])])
           /\ kws[i] \in {"synthetic", "bridge", "varargs"} => all
           /\ kws[i] \in {"synchronized", "bridge", "varargs"} => m.is_method
           /\ kws[i] \in {"transient", "volatile"} => ~m.is_method

\* The payload of the member's Synthetic attribute, empty when it has none.
SyntheticPayload(m) ==
    IF \E j \in 1..Len(m.attribs) :
           m.attribs[j][1].v = Str(<<"S", "y", "n", "t", "h", "e", "t", "i", "c">>)
    THEN m.attribs[CHOOSE j \in 1..Len(m.attribs) :
             m.attribs[j][1].v = Str(<<"S", "y", "n", "t", "h", "e", "t", "i", "c">>)][2]
    ELSE <<>>

RefPool(c, st, nt, fr) ==
    << Utf8(<<"a">>), Utf8(<<"I">>), <<CONST_Class, c>>, <<CONST_NameAndType, nt>>,
       <<CONST_Fieldref, fr>>, <<CONST_String, st>>, <<CONST_Integer, 5>>,
       Utf8(<<"E", "n", "c", "l", "o", "s", "i", "n", "g", "M", "e", "t", "h", "o", "d">>) >>

WellTypedFile == ClassBytes(RefPool(1, 2, <<1, 2>>, <<3, 4>>), 3, <<>>, <<>>, <<>>)

\* Every choice of each reference among a right target and wrong ones.
RefFiles ==
    {ClassBytes(RefPool(c, st, nt, fr), this_ref, <<>>, <<>>, <<>>) :
        c \in {1, 4, 7}, st \in {2, 3}, nt \in {<<1, 2>>, <<3, 7>>},
        fr \in {<<3, 4>>, <<4, 3>>, <<1, 1>>}, this_ref \in {3, 1, 0}}

\* A pool entry of tag 2, which is no tag.
UnknownTagFile ==
    ClassBytes(<<Utf8(<<"a">>), Raw(<<2>>)>>, 0, <<>>, <<>>, <<>>)

\* EnclosingMethod payloads: whole, cut short, empty.
EnclosingFiles ==
    {ClassBytes(RefPool(1, 2, <<1, 2>>, <<3, 4>>), 3, <<>>, <<>>, <<<<8, payload>>>>) :
        payload \in {U16(3) \o U16(4), U16(3) \o U16(0), U16(3), <<>>}}

Malformed ==
    (Prefixes(WellTypedFile) \ {WellTypedFile})
    \cup {WithMagic(m, WellTypedFile) : m \in SpoiltMagics}
    \cup {UnknownTagFile}

ParseObjects ==
    {[kind |-> "str", s |-> StringIO(c), pre |-> <<>>] :
        c \in RefFiles \cup EnclosingFiles \cup Malformed}
    \cup {[kind |-> "stream", s |-> StringIO(c), pre |-> <<>>] :
        c \in EnclosingFiles \cup Malformed}
    \cup {[kind |-> "reader", s |-> [StringIO(c) EXCEPT !.hasclose = FALSE], pre |-> <<>>] :
        c \in {WellTypedFile, UnknownTagFile}}

InitParse ==
    /\ data \in ParseObjects
    /\ up = NoUnpacker
    /\ ret = NoCall
    /\ IdleLine /\ IdlePool /\ IdleDesc /\ IdleClass

\* o = unpack_class(data); o.get_enclosingmethod()
EnclosingMethodOfUnpacked ==
    /\ ret.called /\ ret.op = "unpack_class" /\ ret.r.exc = ""
    /\ LET r == get_enclosingmethod(ret.r.val)
       IN  cres' = [called |-> TRUE, op |-> "get_enclosingmethod", arg |-> <<>>,
                    exc |-> r.exc, val |-> r.val, s |-> r.s]
    /\ UNCHANGED <<lnattr, lres, data, up, ret, pin, cpool, pres,
                   dsrc, dbuff, dtoks, dpc, cls>>

NextParse == IsClass \/ UnpackClass \/ EnclosingMethodOfUnpacked

SpecParse == InitParse /\ [][NextParse]_vars

(***************************************************************************)
(* Properties of SpecParse                                                 *)
(***************************************************************************)
\* The payload of the EnclosingMethod attribute of the class unpacked.
EnclosingPayload ==
    get_attribute(ret.r.val.attribs,
                  Str(<<"E", "n", "c", "l", "o", "s", "i", "n", "g",
                        "M", "e", "t", "h", "o", "d">>))

\* The last call on the data object was op.
Called_op(op) == ret.called /\ ret.op = op

TagIs(i, tags) ==
    /\ i \in 0..(Len(ret.r.val.consts) - 1)
    /\ ret.r.val.consts[i + 1][1] \in tags

\* C20: in a class unpack_class returned, a Class or String entry refers to
\* a Utf8 entry, a Fieldref, Methodref or InterfaceMethodref to a Class and
\* a NameAndType entry, a NameAndType to two Utf8 entries, and this_ref to a
\* Class entry.
C20_ReferencesWellTyped ==
    (ret.called /\ ret.op = "unpack_class" /\ ret.r.exc = "") =>
        /\ TagIs(ret.r.val.this_ref, {CONST_Class})
        /\ \A i \in 1..(Len(ret.r.val.consts) - 1) :
               LET e == ret.r.val.consts[i + 1]
               IN  /\ e[1] \in {CONST_Class, CONST_String} => TagIs(e[2], {CONST_Utf8})
                   /\ e[1] \in {CONST_Fieldref, CONST_Methodref,
                                CONST_InterfaceMethodref} =>
                          /\ TagIs(e[2][1], {CONST_Class})
                          /\ TagIs(e[2][2], {CONST_NameAndType})
                   /\ e[1] = CONST_NameAndType =>
                          /\ TagIs(e[2][1], {CONST_Utf8})
                          /\ TagIs(e[2][2], {CONST_Utf8})

(***************************************************************************)
(* Properties of SpecPool: the bytes unpack consumed.                      *)
(***************************************************************************)
\* The bytes JavaConstantPool.unpack took off the stream.
Consumed == Len(pin) - Len(pres.r.s.buf)

\* The bytes that follow the tag byte of a decoded entry.
PayloadSize(e) ==
    IF e[1] = None THEN 0
    ELSE IF e[1] = CONST_Utf8 THEN 2 + Len(e[2])
    ELSE IF e[1] \in {CONST_Integer, CONST_Float} THEN 4
    ELSE IF e[1] \in {CONST_Long, CONST_Double} THEN 8
    ELSE IF e[1] \in RefTags THEN 2
    ELSE 4

RECURSIVE PayloadSizes(_)
PayloadSizes(items) ==
    IF items = <<>> THEN 0 ELSE PayloadSize(Head(items)) + PayloadSizes(Tail(items))

\* Every Utf8 entry decoded is ASCII without U+0000, one byte a character.
PlainUtf8 ==
    \A i \in Slots :
        TagAt(i) = CONST_Utf8 => \A k \in 1..Len(PayloadAt(i)) : PayloadAt(i)[k] \in 1..127

\* The tag bytes among the bytes consumed: all but the count and the
\* payloads.
TagBytes == Consumed - 2 - PayloadSizes(cpool)

\* The Long and Double entries that have an index after them.
TwoSlotEntries == {i \in Slots : TwoSlot(i) /\ i + 1 \in Slots}

\* C21 as stated: unpack of a pool of header count c consumed c - 1 tag
\* bytes, Long and Double entries or not.
C21_TagBytes ==
    (Unpacked /\ PlainUtf8) => TagBytes = HeaderCount - 1

\* C21 amended: unpack consumed one tag byte for each index from 1 to c - 1
\* but the indexes that follow a Long or Double, for which nothing is read;
\* a header count of 0 is as a count of 1.
C21_TagBytesAmended ==
    (Unpacked /\ PlainUtf8) =>
        TagBytes = (IF HeaderCount = 0 THEN 0 ELSE HeaderCount - 1)
                   - Cardinality(TwoSlotEntries)

\* A pool of count 7 with a Long and a Double, unpacked from five tags.
C21_Witness ==
    /\ Unpacked /\ PlainUtf8
    /\ HeaderCount = 7
    /\ Cardinality(TwoSlotEntries) = 2
    /\ TagBytes = 4

(***************************************************************************)
(* Properties of SpecDesc: termination of the tokenizer.                   *)
(***************************************************************************)
\* C22: every call of _next_argsig that returns takes at least one
\* character off the buffer, so no token is empty and the tokens yielded
\* never outnumber the characters consumed; the loop of _typeseq_iter then
\* ends within as many calls as the input has characters.
C22_EveryCallConsumes ==
    dpc \in {"run", "done"} =>
        /\ \A k \in 1..Len(dtoks) : dtoks[k] # <<>>
        /\ Len(dtoks) <= Len(dsrc) - Len(dbuff)

(***************************************************************************)
(* Properties of SpecPool: termination of deref_const.                     *)
(***************************************************************************)
\* The indexes slot i refers to.
RefsOf(i) ==
    IF i \notin Slots \ {0} THEN {}
    ELSE IF TagAt(i) \in RefTags THEN {PayloadAt(i)}
    ELSE IF TagAt(i) \in PairTags THEN {PayloadAt(i)[1], PayloadAt(i)[2]}
    ELSE {}

\* The indexes reached from those of S along references.
RECURSIVE ReachedFrom(_)
ReachedFrom(S) ==
    LET T == S \cup UNION {RefsOf(i) : i \in S}
    IN  IF T = S THEN S ELSE ReachedFrom(T)

\* Dereferencing i can come back to an entry it is dereferencing.
ReachesCycle(i) == \E j \in ReachedFrom({i}) : j \in ReachedFrom(RefsOf(j))

C23_WitnessSelf ==
    /\ pres.called /\ pres.op = "deref_const"
    /\ pres.arg \in RefsOf(pres.arg)
    /\ pres.r.exc = "RuntimeError"

(***************************************************************************)
(* Properties of SpecIO: the caller's stream after is_class.               *)
(***************************************************************************)
\* The last call was unpack_class with a magic the caller did not read off
\* the stream itself: the one is_class found.
UnpackedAfterIsClass ==
    Called_op("unpack_class") /\ ret.arg # PyNone /\ data.pre = <<>>

\* The last call was a read through an Unpacker that is open, over a
\* stream of the caller that was closed before the Unpacker was made.
ReadOfClosedStream ==
    /\ Called_op("unpack") \/ Called_op("read")
    /\ up.made /\ up.open /\ ~up.own
    /\ data.s.closed

\* C24: a stream with a close method that is_class was given is closed when
\* is_class has returned, whatever it returned; unpack_class(stream, magic)
\* after is_class(stream) returned true fails and takes none of the bytes
\* left in the stream (with the ValueError of the closed stream when the
\* magic is given as a tuple), and every read through a new Unpacker over
\* a stream closed this way fails with that ValueError.
C24_IsClassClosesStream ==
    /\ (Called_op("is_class") /\ IsStream(data) /\ data.s.hasclose) =>
           /\ ret.r.exc = ""
           /\ data.s.closed
    /\ (UnpackedAfterIsClass /\ data.s.hasclose) =>
           /\ ret.r.exc # ""
           /\ ret.arg.ty = "tuple" => ret.r.exc = "ValueError"
           /\ data.s.closed
           /\ data.s.buf \in {Suffix(c, 4) : c \in Whole \cup Prefixes(SmallClass)}
    /\ ReadOfClosedStream => ret.r.exc = "ValueError"

\* unpack_class(stream, magic) after is_class(stream) returned true has
\* failed on the closed stream, the rest of a well-formed class unread in
\* it.
C24_Witness ==
    /\ UnpackedAfterIsClass
    /\ data.kind = "stream"
    /\ data.s.closed
    /\ data.s.buf \in AfterMagic
    /\ ret.arg.ty = "tuple"
    /\ ret.r.exc = "ValueError"

\* The same two calls on a stream with no close method give the class.
C24_WitnessNoClose ==
    /\ UnpackedAfterIsClass
    /\ data.kind = "reader"
    /\ ret.r.exc = ""

=============================================================================
